---- MODULE Spec2Model ----
(***************************************************************************)
(* Model of the paper-analyzer request handler                             *)
(* (src/app/api/analyze/route.ts): the identifier classifier parseInput,   *)
(* the similarity scorer titleSimilarity, the resolution stages of POST    *)
(* and the relay of the upstream completion stream to the caller.          *)
(*                                                                         *)
(* A JavaScript string is modelled as a sequence of one-character strings, *)
(* so that trimming, prefix tests and the regular expressions of the       *)
(* source are computed character by character.                             *)
(***************************************************************************)
EXTENDS Integers, Sequences, FiniteSets, TLC

VARIABLES pc, input, apiKey, response, parsed, meta, fullText, impact,
          events, stream, closes, calls, inflight, searchResults,
          upstream, offset, buf,
          titleA, titleB, similarity, stripped, capped,
          isLoading, status, shownMeta, shownImpact, analysis, error,
          abortRef, requests

\* the state of the page component Home (lines 762-773): its useState cells
\* and its abortRef, and the requests handleAnalyze has started; the route
\* handler does not touch them.  shownMeta and shownImpact are the cells
\* meta and impact of Home
clientVars == <<isLoading, status, shownMeta, shownImpact, analysis, error,
                abortRef, requests>>

\* the arguments and the result of the scorer and of the text cap when they
\* are run on their own (ScoreSpec, CapSpec); the request handler does not
\* touch them
functionVars == <<titleA, titleB, similarity, stripped, capped, clientVars>>

vars == <<pc, input, apiKey, response, parsed, meta, fullText, impact,
          events, stream, closes, calls, inflight, searchResults,
          upstream, offset, buf, functionVars>>

(***************************************************************************)
(* Characters and strings                                                  *)
(***************************************************************************)
Digits == {"0", "1", "2", "3", "4", "5", "6", "7", "8", "9"}

UpperCase == <<"A","B","C","D","E","F","G","H","I","J","K","L","M",
               "N","O","P","Q","R","S","T","U","V","W","X","Y","Z">>

LowerCase == <<"a","b","c","d","e","f","g","h","i","j","k","l","m",
               "n","o","p","q","r","s","t","u","v","w","x","y","z">>

\* the characters String.prototype.trim removes and \s matches (those used)
WhiteSpace == {" ", "\t", "\n", "\r"}

IsDigit(c) == c \in Digits

IsSpace(c) == c \in WhiteSpace

\* String.prototype.toLowerCase on one character
ToLower(c) ==
    IF \E k \in 1..26 : UpperCase[k] = c
    THEN LowerCase[CHOOSE k \in 1..26 : UpperCase[k] = c]
    ELSE c

\* the KELVIN SIGN U+212A: a letter outside ASCII whose lower case is the
\* ASCII letter k (as U+0130 lower-cases to i followed by U+0307)
C_kelvin == "KELVIN"

\* String.prototype.toLowerCase: the Unicode lower-case mapping
toLowerCase(s) ==
    [k \in 1..Len(s) |-> IF s[k] = C_kelvin THEN "k" ELSE ToLower(s[k])]

\* s.slice(from - 1, to) with 1-based inclusive bounds, clamped
Slice(s, from, to) ==
    IF to < from THEN <<>>
    ELSE [k \in 1..((IF to > Len(s) THEN Len(s) ELSE to) - from + 1)
             |-> s[from + k - 1]]

\* does the literal lit occur in s at position i (1-based) ?
MatchAt(s, i, lit) ==
    /\ i >= 1
    /\ i + Len(lit) - 1 <= Len(s)
    /\ \A k \in 1..Len(lit) : s[i + k - 1] = lit[k]

\* the same under the regular expression flag /i
MatchAtIgnoreCase(s, i, lit) ==
    /\ i >= 1
    /\ i + Len(lit) - 1 <= Len(s)
    /\ \A k \in 1..Len(lit) : ToLower(s[i + k - 1]) = ToLower(lit[k])

startsWith(s, lit) == MatchAt(s, 1, lit)

\* String.prototype.trim
trim(s) ==
    IF \A k \in 1..Len(s) : IsSpace(s[k]) THEN <<>>
    ELSE LET first == CHOOSE i \in 1..Len(s) :
                          /\ ~IsSpace(s[i])
                          /\ \A k \in 1..(i - 1) : IsSpace(s[k])
             last  == CHOOSE j \in 1..Len(s) :
                          /\ ~IsSpace(s[j])
                          /\ \A k \in (j + 1)..Len(s) : IsSpace(s[k])
         IN Slice(s, first, last)

\* number of digits of s starting at position i (greedy \d*)
RECURSIVE DigitRun(_, _)
DigitRun(s, i) ==
    IF i <= Len(s) /\ IsDigit(s[i]) THEN 1 + DigitRun(s, i + 1) ELSE 0

\* number of non-whitespace characters of s starting at position i (\S*)
RECURSIVE NonSpaceRun(_, _)
NonSpaceRun(s, i) ==
    IF i <= Len(s) /\ ~IsSpace(s[i]) THEN 1 + NonSpaceRun(s, i + 1) ELSE 0

(***************************************************************************)
(* parseInput: the identifier classifier                                   *)
(***************************************************************************)
S_http == <<"h","t","t","p",":","/","/">>

S_https == <<"h","t","t","p","s",":","/","/">>

S_arxivAbs == <<"a","r","x","i","v",".","o","r","g","/","a","b","s","/">>

S_arxivPdf == <<"a","r","x","i","v",".","o","r","g","/","p","d","f","/">>

S_arxivHtml == <<"a","r","x","i","v",".","o","r","g","/","h","t","m","l","/">>

ArxivPrefixes == {S_arxivAbs, S_arxivPdf, S_arxivHtml}

\* variant of ArxivIdLen whose group stops before the version suffix
ArxivIdLen_NoVersion(s, i) ==
    IF /\ i >= 1
       /\ i + 8 <= Len(s)
       /\ \A k \in 0..3 : IsDigit(s[i + k])
       /\ s[i + 4] = "."
       /\ \A k \in 5..8 : IsDigit(s[i + k])
    THEN IF i + 9 <= Len(s) /\ IsDigit(s[i + 9]) THEN 10 ELSE 9
    ELSE 0

\* length matched at position i by  \d{4}\.\d{4,5}(?:v\d+)?  under /i
\* (0 when it does not match); every quantifier is greedy and nothing
\* follows the group, so no backtracking changes the result
ArxivIdLen(s, i) ==
    IF /\ i >= 1
       /\ i + 8 <= Len(s)
       /\ \A k \in 0..3 : IsDigit(s[i + k])
       /\ s[i + 4] = "."
       /\ \A k \in 5..8 : IsDigit(s[i + k])
    THEN LET base == IF i + 9 <= Len(s) /\ IsDigit(s[i + 9]) THEN 10 ELSE 9
             v    == i + base
             ver  == IF v <= Len(s) /\ ToLower(s[v]) = "v"
                        /\ DigitRun(s, v + 1) >= 1
                     THEN 1 + DigitRun(s, v + 1) ELSE 0
         IN base + ver
    ELSE 0

\* start of capture group 1 when the arXiv expression matches at position i
\* (0 when it does not): the optional prefix is tried first, then skipped
ArxivGroupAt(s, i) ==
    IF \E p \in ArxivPrefixes :
           MatchAtIgnoreCase(s, i, p) /\ ArxivIdLen(s, i + Len(p)) > 0
    THEN i + Len(CHOOSE p \in ArxivPrefixes :
                    MatchAtIgnoreCase(s, i, p) /\ ArxivIdLen(s, i + Len(p)) > 0)
    ELSE IF ArxivIdLen(s, i) > 0 THEN i ELSE 0

ArxivMatches(s) == \E i \in 1..Len(s) : ArxivGroupAt(s, i) > 0

\* s.match(/(?:arxiv\.org\/(?:abs|pdf|html)\/)?(\d{4}\.\d{4,5}(?:v\d+)?)/i)[1]
\* : group 1 of the leftmost match
ArxivCapture(s) ==
    LET i == CHOOSE j \in 1..Len(s) :
                 /\ ArxivGroupAt(s, j) > 0
                 /\ \A k \in 1..(j - 1) : ArxivGroupAt(s, k) = 0
        g == ArxivGroupAt(s, i)
    IN Slice(s, g, g + ArxivIdLen(s, g) - 1)

\* length matched at position i by  10\.\d{4,}\/\S+  (0 when no match)
DoiLen(s, i) ==
    IF /\ MatchAt(s, i, <<"1", "0", ".">>)
       /\ DigitRun(s, i + 3) >= 4
       /\ i + 3 + DigitRun(s, i + 3) <= Len(s)
       /\ s[i + 3 + DigitRun(s, i + 3)] = "/"
       /\ NonSpaceRun(s, i + 4 + DigitRun(s, i + 3)) >= 1
    THEN 4 + DigitRun(s, i + 3) + NonSpaceRun(s, i + 4 + DigitRun(s, i + 3))
    ELSE 0

DoiMatches(s) == \E i \in 1..Len(s) : DoiLen(s, i) > 0

\* s.match(/(10\.\d{4,}\/\S+)/)[1]
DoiCapture(s) ==
    LET i == CHOOSE j \in 1..Len(s) :
                 /\ DoiLen(s, j) > 0
                 /\ \A k \in 1..(j - 1) : DoiLen(s, k) = 0
    IN Slice(s, i, i + DoiLen(s, i) - 1)

\* variant of parseInput that tests the URL prefix before the two patterns
parseInput_UrlFirst(raw) ==
    LET s == trim(raw)
    IN IF startsWith(s, S_http) \/ startsWith(s, S_https)
       THEN [type |-> "url", id |-> s]
       ELSE IF ArxivMatches(s) THEN [type |-> "arxiv", id |-> ArxivCapture(s)]
       ELSE IF DoiMatches(s) THEN [type |-> "doi", id |-> DoiCapture(s)]
       ELSE [type |-> "title", id |-> s]

parseInput(raw) ==
    LET s == trim(raw)
    IN IF ArxivMatches(s) THEN [type |-> "arxiv", id |-> ArxivCapture(s)]
       ELSE IF DoiMatches(s) THEN [type |-> "doi", id |-> DoiCapture(s)]
       ELSE IF startsWith(s, S_http) \/ startsWith(s, S_https)
            THEN [type |-> "url", id |-> s]
       ELSE [type |-> "title", id |-> s]

(***************************************************************************)
(* titleSimilarity: the similarity scorer.  A score is the exact rational  *)
(* num/den; the double division of the source is exact enough that every   *)
(* comparison below agrees with the comparison of the rationals.           *)
(***************************************************************************)
IsWordChar(c) == c \in Digits \/ (\E k \in 1..26 : LowerCase[k] = c)

\* variant of Strip that removes nothing
Strip_KeepPunctuation(s) == toLowerCase(s)

\* variant of Strip that does not lower-case first
Strip_KeepCase(s) == SelectSeq(s, LAMBDA c : IsWordChar(c) \/ IsSpace(c))

\* s.toLowerCase().replace(/[^a-z0-9\s]/g, '')
Strip(s) == SelectSeq(toLowerCase(s), LAMBDA c : IsWordChar(c) \/ IsSpace(c))

\* new Set(t.split(/\s+/).filter(Boolean)): the maximal runs of
\* non-whitespace characters of t
WordSet(t) ==
    { Slice(t, i, j) : <<i, j>> \in
        { w \in (1..Len(t)) \X (1..Len(t)) :
            /\ w[1] <= w[2]
            /\ \A k \in w[1]..w[2] : ~IsSpace(t[k])
            /\ (w[1] = 1 \/ IsSpace(t[w[1] - 1]))
            /\ (w[2] = Len(t) \/ IsSpace(t[w[2] + 1])) } }

normalize(s) == WordSet(Strip(s))

Max(a, b) == IF a >= b THEN a ELSE b

ZeroScore == [num |-> 0, den |-> 1]

\* variant of titleSimilarity that divides by the smaller set
titleSimilarity_Min(a, b) ==
    LET wordsA == normalize(a)
        wordsB == normalize(b)
    IN IF wordsA = {} \/ wordsB = {} THEN ZeroScore
       ELSE [num |-> Cardinality(wordsA \cap wordsB),
             den |-> IF Cardinality(wordsA) <= Cardinality(wordsB)
                     THEN Cardinality(wordsA) ELSE Cardinality(wordsB)]

\* variant of titleSimilarity that divides by the size of the first set
titleSimilarity_First(a, b) ==
    LET wordsA == normalize(a)
        wordsB == normalize(b)
    IN IF wordsA = {} \/ wordsB = {} THEN ZeroScore
       ELSE [num |-> Cardinality(wordsA \cap wordsB),
             den |-> Cardinality(wordsA)]

titleSimilarity(a, b) ==
    LET wordsA == normalize(a)
        wordsB == normalize(b)
    IN IF wordsA = {} \/ wordsB = {} THEN ZeroScore
       ELSE [num |-> Cardinality(wordsA \cap wordsB),
             den |-> Max(Cardinality(wordsA), Cardinality(wordsB))]

\* x > y, x <= y on scores
ScoreGt(x, y) == x.num * y.den > y.num * x.den

\* the acceptance threshold 0.4 = ThresholdNum / ThresholdDen
ThresholdNum == 4

ThresholdDen == 10

\* variant of AtLeastThreshold that accepts every candidate
AtLeastThreshold_Any(x) == x.num * ThresholdDen >= 0

\* score >= 0.4
AtLeastThreshold(x) == x.num * ThresholdDen >= ThresholdNum * x.den

(***************************************************************************)
(* Values exchanged with the external services                             *)
(***************************************************************************)
Null == [isNull |-> TRUE]

NoString == <<>>

MkMeta(title, authors, abstract, year, venue, arxivId, url) ==
    [title |-> title, authors |-> authors, abstract |-> abstract,
     year |-> year, venue |-> venue, arxivId |-> arxivId, url |-> url]

\* titles used by the services (as JavaScript strings)
Q_title == <<"a"," ","b"," ","c"," ","d"," ","e">>

T_low == <<"a"," ","x"," ","y"," ","z"," ","w">>

T_high == <<"a"," ","b"," ","c"," ","x"," ","y">>

T_edge == <<"A"," ","b",","," ","x"," ","y"," ","z">>

T_Error == <<"E","r","r","o","r">>

T_page == <<"P","g">>

Id_1706 == <<"1","7","0","6",".","0","3","7","6","2">>

\* a paper object of the Semantic Scholar API; abstract is the length of
\* the abstract text
Paper(title, arxivId) ==
    [title |-> title, authors |-> <<"N">>, abstract |-> 120,
     year |-> "2017", venue |-> <<"V">>, arxivId |-> arxivId, url |-> <<"u">>]

\* an <entry> of the arXiv Atom feed
Entry(title, arxivId) ==
    [title |-> title, authors |-> <<"N">>, summary |-> 120,
     published |-> "2017", arxivId |-> arxivId]

\* responses of an external HTTP service
Throw == [threw |-> TRUE]

NotOk == [ok |-> FALSE]

Ok(body) == [ok |-> TRUE, body |-> body]

\* sequences over S of length at most n
SeqUpTo(S, n) == UNION { [1..k -> S] : k \in 0..n }

(***************************************************************************)
(* Source adapters                                                         *)
(***************************************************************************)
S_arxivUrl == S_https \o S_arxivAbs

S_arXiv == <<"a","r","X","i","v">>

\* fetchArxiv: the first <entry> of the feed; rejected when its title is
\* empty or the literal "Error"
fetchArxiv(id, res) ==
    IF res = Throw \/ res = NotOk THEN Null
    ELSE IF res.body = <<>> THEN Null
    ELSE LET entry == res.body[1]
         IN IF entry.title = NoString \/ entry.title = T_Error THEN Null
            ELSE MkMeta(entry.title, entry.authors, entry.summary,
                        entry.published, S_arXiv, id, S_arxivUrl \o id)

\* variant of ArxivBest that keeps the first entry with a positive score
RECURSIVE ArxivBest_First(_, _, _, _)
ArxivBest_First(query, entries, i, best) ==
    IF i > Len(entries) THEN best
    ELSE LET e == entries[i]
             score == titleSimilarity(query, e.title)
         IN IF e.title = NoString \/ e.title = T_Error
            THEN ArxivBest_First(query, entries, i + 1, best)
            ELSE IF best.result # Null \/ ~ScoreGt(score, best.score)
            THEN ArxivBest_First(query, entries, i + 1, best)
            ELSE ArxivBest_First(query, entries, i + 1,
                   [result |-> MkMeta(e.title, e.authors, e.summary,
                                      e.published, S_arXiv, e.arxivId,
                                      IF e.arxivId # NoString
                                      THEN S_arxivUrl \o e.arxivId
                                      ELSE NoString),
                    score |-> score])

\* the loop over the entries of one feed in searchArxiv: entries[i..] are
\* folded into best = [result, score]
RECURSIVE ArxivBest(_, _, _, _)
ArxivBest(query, entries, i, best) ==
    IF i > Len(entries) THEN best
    ELSE LET e == entries[i]
             score == titleSimilarity(query, e.title)
         IN IF e.title = NoString \/ e.title = T_Error
            THEN ArxivBest(query, entries, i + 1, best)
            ELSE IF ~ScoreGt(score, best.score)
            THEN ArxivBest(query, entries, i + 1, best)
            ELSE ArxivBest(query, entries, i + 1,
                   [result |-> MkMeta(e.title, e.authors, e.summary,
                                      e.published, S_arXiv, e.arxivId,
                                      IF e.arxivId # NoString
                                      THEN S_arxivUrl \o e.arxivId
                                      ELSE NoString),
                    score |-> score])

\* one pass of searchArxiv: the accepted result, or Null to go on
ArxivPass(query, res) ==
    IF res = NotOk THEN Null
    ELSE IF res.body = <<>> THEN Null
    ELSE LET best == ArxivBest(query, res.body, 1,
                               [result |-> Null, score |-> ZeroScore])
         IN IF best.result # Null /\ AtLeastThreshold(best.score)
            THEN best.result ELSE Null

\* searchArxiv: res1 answers the quoted title query, res2 the all-fields
\* query (fetched only when the first pass accepted nothing)
searchArxiv(query, res1, res2) ==
    IF res1 = Throw THEN Null
    ELSE IF ArxivPass(query, res1) # Null THEN ArxivPass(query, res1)
    ELSE IF res2 = Throw THEN Null
    ELSE ArxivPass(query, res2)

\* lines 83-89: the queries searchArxiv sends, each with its answer
ArxivRequests(query, res1, res2) ==
    IF res1 = Throw \/ ArxivPass(query, res1) # Null
    THEN <<[name |-> "ti", result |-> res1]>>
    ELSE <<[name |-> "ti", result |-> res1], [name |-> "all", result |-> res2]>>

\* the loop over the papers in searchByTitle
RECURSIVE ScholarBest(_, _, _, _)
ScholarBest(title, papers, i, best) ==
    IF i > Len(papers) THEN best
    ELSE LET score == titleSimilarity(title, papers[i].title)
         IN IF ScoreGt(score, best.score)
            THEN ScholarBest(title, papers, i + 1,
                             [paper |-> papers[i], score |-> score])
            ELSE ScholarBest(title, papers, i + 1, best)

PaperMetaOf(paper) ==
    MkMeta(paper.title, paper.authors, paper.abstract, paper.year,
           paper.venue, paper.arxivId, paper.url)

searchByTitle(title, res) ==
    IF res = Throw \/ res = NotOk THEN Null
    ELSE LET best == ScholarBest(title, res.body, 1,
                                 [paper |-> Null, score |-> ZeroScore])
         IN IF best.paper = Null \/ ~AtLeastThreshold(best.score) THEN Null
            ELSE PaperMetaOf(best.paper)

\* Strategy 3 of POST: the first paper of the match endpoint that scores
\* at least the threshold
RECURSIVE FirstMatch(_, _, _)
FirstMatch(query, papers, i) ==
    IF i > Len(papers) THEN Null
    ELSE IF AtLeastThreshold(titleSimilarity(query, papers[i].title))
    THEN PaperMetaOf(papers[i])
    ELSE FirstMatch(query, papers, i + 1)

exactMatch(query, res) ==
    IF res = Throw \/ res = NotOk THEN Null
    ELSE FirstMatch(query, res.body, 1)

WebSearchCap == 5

\* webSearch: the links of the result page that are absolute and do not
\* point back to the search engine, at most WebSearchCap of them
webSearch(query, res) ==
    IF res = Throw THEN <<>>
    ELSE LET links == SelectSeq(res.body, LAMBDA l : l.external)
         IN Slice(links, 1, WebSearchCap)

TextCap == 50000

AbstractCap == 1000

MinPageText == 200

WebFetchTries == 3

PageMarkerLen == 16

PaperMarkerLen == 20

\* a text is a sequence of segments, each a name and a number of characters
Seg(name, n) == [seg |-> name, n |-> n]

\* a stripped text of n characters
Text(n) == IF n = 0 THEN <<>> ELSE <<Seg("body", n)>>

\* text.length
RECURSIVE TextLen(_)
TextLen(t) == IF t = <<>> THEN 0 ELSE Head(t).n + TextLen(Tail(t))

\* text.slice(0, k)
RECURSIVE TextSlice(_, _)
TextSlice(t, k) ==
    IF t = <<>> \/ k = 0 THEN <<>>
    ELSE IF Head(t).n <= k
         THEN <<Head(t)>> \o TextSlice(Tail(t), k - Head(t).n)
         ELSE <<Seg(Head(t).seg, k)>>

\* the truncation markers of lines 205 and 239
PageMarker == <<Seg("pageMarker", PageMarkerLen)>>

PaperMarker == <<Seg("paperMarker", PaperMarkerLen)>>

\* variant of capText that cuts without appending the marker
capText_NoMarker(text, marker) ==
    IF TextLen(text) > TextCap THEN TextSlice(text, TextCap) ELSE text

\* lines 205, 239: if (text.length > 50000) text = text.slice(0, 50000) + marker
capText(text, marker) ==
    IF TextLen(text) > TextCap THEN TextSlice(text, TextCap) \o marker
    ELSE text

\* fetchWebPage: title and stripped text (its length) of the page
fetchWebPage(pageUrl, res) ==
    IF res = Throw \/ res = NotOk THEN Null
    ELSE [title |-> res.body.title,
          text |-> TextLen(capText(Text(res.body.text), PageMarker))]

\* fetchFullText: the stripped text (its length) of the ar5iv rendering
fetchFullText(arxivId, res) ==
    IF res = Throw \/ res = NotOk THEN 0
    ELSE TextLen(capText(Text(res.body.text), PaperMarker))

\* fetchImpact: res answers the one request made, the id lookup when
\* arxivId is set and the title search otherwise
fetchImpact(title, arxivId, res) ==
    IF res = Throw \/ res = NotOk THEN Null
    ELSE IF res.body = <<>> THEN Null
    ELSE [citations |-> res.body[1].citationCount,
          influentialCitations |-> res.body[1].influentialCitationCount]

\* new URL(u).hostname for an http(s) URL without port or credentials
Hostname(u) ==
    LET start == IF startsWith(u, S_https) THEN Len(S_https) + 1
                 ELSE Len(S_http) + 1
        RECURSIVE HostRun(_)
        HostRun(i) == IF i <= Len(u) /\ u[i] # "/" THEN 1 + HostRun(i + 1)
                      ELSE 0
    IN Slice(u, start, start + HostRun(start) - 1)

(***************************************************************************)
(* The upstream completion stream.  Its bytes are ASCII characters; the    *)
(* payload of a frame is written  { text }  where "{" stands for the JSON  *)
(* text up to the opening quote of choices[0].delta.content and "}" for    *)
(* the JSON text that closes it.                                           *)
(***************************************************************************)
S_data == <<"d","a","t","a",":"," ">>

S_DONE == <<"[","D","O","N","E","]">>

\* buf.split('\n'): the pieces of s between line feeds, from position i on
RECURSIVE SplitLines(_, _, _)
SplitLines(s, i, cur) ==
    IF i > Len(s) THEN <<cur>>
    ELSE IF s[i] = "\n" THEN <<cur>> \o SplitLines(s, i + 1, <<>>)
    ELSE SplitLines(s, i + 1, Append(cur, s[i]))

\* JSON.parse(payload).choices?.[0]?.delta?.content ; ok is FALSE when
\* JSON.parse throws
ParsePayload(payload) ==
    IF /\ Len(payload) >= 2
       /\ payload[1] = "{"
       /\ payload[Len(payload)] = "}"
       /\ \A k \in 2..(Len(payload) - 1) : IsWordChar(ToLower(payload[k]))
    THEN [ok |-> TRUE, content |-> Slice(payload, 2, Len(payload) - 1)]
    ELSE [ok |-> FALSE]

\* the text relayed for one complete line (NoString when nothing is)
LineContent(line) ==
    IF ~startsWith(line, S_data) THEN NoString
    ELSE LET payload == Slice(line, Len(S_data) + 1, Len(line))
         IN IF payload = S_DONE THEN NoString
            ELSE IF ParsePayload(payload).ok
                 THEN ParsePayload(payload).content
                 ELSE NoString

Ev(event, data) == [event |-> event, data |-> data]

Status(message) == Ev("status", [message |-> message])

\* variant of ChunkEvents that gives up at the first line without a fragment
RECURSIVE ChunkEvents_Fatal(_, _)
ChunkEvents_Fatal(lines, i) ==
    IF i > Len(lines) THEN <<>>
    ELSE IF LineContent(lines[i]) # NoString
         THEN <<Ev("chunk", [text |-> LineContent(lines[i])])>> \o ChunkEvents_Fatal(lines, i + 1)
         ELSE <<>>

\* the events are records [event, data]; data is the JSON object sent
\* the chunk events emitted for the complete lines of one read
RECURSIVE ChunkEvents(_, _)
ChunkEvents(lines, i) ==
    IF i > Len(lines) THEN <<>>
    ELSE IF LineContent(lines[i]) # NoString
         THEN <<Ev("chunk", [text |-> LineContent(lines[i])])>> \o ChunkEvents(lines, i + 1)
         ELSE ChunkEvents(lines, i + 1)

(***************************************************************************)
(* Bounds and the values the environment may supply                        *)
(***************************************************************************)
MaxCands == 2

MaxLinks == 2

MaxFrames == 2

I_padded == <<" ">> \o Q_title \o <<" ">>

I_doi == <<"d","o","i"," ","1","0",".","1","2","3","4","/","a">>

I_url == <<"h","t","t","p","s",":","/","/","h","/","p">>

Inputs == {NoString, I_padded, I_doi, Id_1706, I_url}

ApiKeys == {"", "sk"}

\* what request.json() makes of the request body: a rejection when the body
\* is not JSON, the two fields otherwise (NoString and "" when absent)
Body(ok, in, key) == [json |-> ok, input |-> in, apiKey |-> key]

MalformedBody == Body(FALSE, NoString, "")

Bodies == {MalformedBody} \cup {Body(TRUE, in, key) : in \in Inputs, key \in ApiKeys}

Papers == {Paper(T_low, NoString), Paper(T_high, Id_1706),
           Paper(T_edge, NoString)}

Entries == {Entry(T_low, NoString), Entry(T_high, Id_1706),
            Entry(T_Error, NoString)}

ScholarResponses == {Throw, NotOk} \cup { Ok(b) : b \in SeqUpTo(Papers, MaxCands) }

ArxivResponses == {Throw, NotOk} \cup { Ok(b) : b \in SeqUpTo(Entries, MaxCands) }

U_w == <<"h","t","t","p",":","/","/","w","/">>

U_ddg == <<"/","l">>

Links == {[title |-> <<"W">>, url |-> U_w, external |-> TRUE],
          [title |-> NoString, url |-> U_ddg, external |-> FALSE]}

WebSearchResponses == {Throw} \cup { Ok(b) : b \in SeqUpTo(Links, MaxLinks) }

PageResponses == {Throw, NotOk} \cup
    { Ok([title |-> t, text |-> n]) : t \in {NoString, T_page}, n \in {200, 201} }

FullTextResponses == {Throw, NotOk, Ok([text |-> 0]), Ok([text |-> 900])}

ImpactResponses ==
    {Throw, NotOk, Ok(<<>>),
     Ok(<<[citationCount |-> 7, influentialCitationCount |-> 1]>>)}

F_A == S_data \o <<"{","A","}">>

F_B == S_data \o <<"{","B","}">>

F_C == S_data \o <<"{","C","}">>

\* the frames of a response, in the order upstream sends them
Frames == <<F_A, F_B, F_C>>

NextFrame(k) == Frames[((k - 1) % Len(Frames)) + 1]

\* the frames joined by blank lines; the last one is terminated or not
RECURSIVE JoinFrames(_, _, _)
JoinFrames(count, i, terminated) ==
    IF i > count THEN <<>>
    ELSE NextFrame(i)
         \o (IF i < count \/ terminated THEN <<"\n", "\n">> ELSE <<>>)
         \o JoinFrames(count, i + 1, terminated)

UpstreamBodies ==
    { JoinFrames(count, 1, t) : count \in 0..MaxFrames, t \in BOOLEAN }

\* answers of the completion provider with a non-success status: the status
\* and the length of the error body
QwenErrors ==
    {[ok |-> FALSE, status |-> 401, errText |-> 350],
     [ok |-> FALSE, status |-> 500, errText |-> 120]}

QwenResponses ==
    {Throw} \cup QwenErrors \cup { Ok(b) : b \in UpstreamBodies }

(***************************************************************************)
(* The page component Home: the state its handlers start from              *)
(***************************************************************************)
MaxRequests == 3

MaxChunks == 2

RequestIds == 1..MaxRequests

\* a state cell of Home: its value and the request whose code wrote it
\* (0: the initial value of useState)
Cell(value, by) == [value |-> value, by |-> by]

\* lines 766-772: the initial values of useState and useRef, no request
\* started
ClientIdle ==
    /\ isLoading = FALSE
    /\ status = Cell("", 0)
    /\ shownMeta = Cell("null", 0)
    /\ shownImpact = Cell("null", 0)
    /\ analysis = <<>>
    /\ error = Cell("", 0)
    /\ abortRef = 0
    /\ requests = [id \in RequestIds |-> "unstarted"]

(***************************************************************************)
(* The request handler POST.  One action per resumption of the async       *)
(* function: the code from one await to the next runs without interleaving *)
(* (a single JavaScript thread).                                           *)
(*   pc       the await the handler is suspended at                        *)
(*   events   the events enqueued on the output stream, in order           *)
(*   stream   the output stream as the controller sees it: "readable",     *)
(*            "closed" (controller.close succeeded) or "cancelled" (the    *)
(*            caller aborted); enqueue and close throw unless "readable".  *)
(*            The caller is taken to have a read pending whenever the      *)
(*            handler emits, so nothing is queued when close is called.    *)
(*   closes   the outcome of every call of controller.close                *)
(*   calls    every call of an adapter or external service, with result    *)
(*   inflight the number of calls issued and not yet returned              *)
(***************************************************************************)
Init ==
    /\ pc = "idle"
    /\ input = NoString
    /\ apiKey = ""
    /\ response = "none"
    /\ parsed = Null
    /\ meta = Null
    /\ fullText = 0
    /\ impact = Null
    /\ events = <<>>
    /\ stream = "none"
    /\ closes = <<>>
    /\ calls = <<>>
    /\ inflight = 0
    /\ searchResults = <<>>
    /\ upstream = <<>>
    /\ offset = 0
    /\ buf = <<>>
    /\ titleA = <<>>
    /\ titleB = <<>>
    /\ similarity = [num |-> 0, den |-> 1]
    /\ stripped = <<>>
    /\ capped = <<>>
    /\ ClientIdle

\* the call log once the outstanding call has returned with result r
Returned(r) == [calls EXCEPT ![Len(calls)].result = r]

Call(name) == [name |-> name, result |-> "pending"]

\* emit evs, then await the call of adapter name
Continue(evs, r, name, nextPc) ==
    /\ events' = events \o evs
    /\ calls' = Append(Returned(r), Call(name))
    /\ inflight' = (inflight - 1) + 1
    /\ pc' = nextPc
    /\ UNCHANGED <<stream, closes>>

\* variant of Terminate that returns without calling controller.close
Terminate_NoClose(evs, r, cl) ==
    /\ events' = events \o evs
    /\ calls' = Returned(r)
    /\ inflight' = inflight - 1
    /\ pc' = "done"
    /\ UNCHANGED <<stream, closes>>

\* emit evs, then call controller.close as listed in cl and return
Terminate(evs, r, cl) ==
    /\ events' = events \o evs
    /\ calls' = Returned(r)
    /\ inflight' = inflight - 1
    /\ pc' = "done"
    /\ stream' = "closed"
    /\ closes' = closes \o cl

\* an emit threw because the stream is no longer readable: the catch block
\* emits 'error', which throws again, and the close of the finally block
\* throws as well
Crash(r) ==
    /\ calls' = Returned(r)
    /\ inflight' = inflight - 1
    /\ pc' = "done"
    /\ closes' = Append(closes, "threw")
    /\ UNCHANGED <<events, stream>>

\* variant of AfterResolution that goes on without emitting metadata
AfterResolution_NoMetadata(evs, r, m, ft) ==
    /\ meta' = m
    /\ fullText' = ft
    /\ IF m = Null
       THEN Terminate(evs \o <<Ev("error", [message |-> "unresolved"])>>, r, <<"ok", "threw">>)
       ELSE IF ft = 0 /\ m.arxivId # NoString
       THEN Continue(evs \o <<Status("fullText")>>, r,
                     "fetchFullText", "fetchFullText")
       ELSE Continue(evs \o <<Status("impact")>>, r,
                     "fetchImpact", "fetchImpact")

\* lines 629-654: the hard failure, or metadata and the next stage
AfterResolution(evs, r, m, ft) ==
    /\ meta' = m
    /\ fullText' = ft
    /\ IF m = Null
       THEN Terminate(evs \o <<Ev("error", [message |-> "unresolved"])>>, r, <<"ok", "threw">>)
       ELSE IF ft = 0 /\ m.arxivId # NoString
       THEN Continue(evs \o <<Ev("metadata", m), Status("fullText")>>, r,
                     "fetchFullText", "fetchFullText")
       ELSE Continue(evs \o <<Ev("metadata", m), Status("impact")>>, r,
                     "fetchImpact", "fetchImpact")

\* variant of BareMeta that leaves the title empty
BareMeta_NoTitle(id) ==
    MkMeta(NoString, <<>>, 0, "", NoString, NoString, NoString)

\* variant of BareMeta that gives up
BareMeta_Null(id) == Null

\* Strategy 5: the bare fallback
BareMeta(id) == MkMeta(id, <<>>, 0, "", NoString, NoString, NoString)

\* variant of FieldsMissing that does not look at apiKey
FieldsMissing_InputOnly(in, key) == in = NoString

\* line 508: !input || !apiKey, true of a field that is absent or empty
FieldsMissing(in, key) == in = NoString \/ key = ""

\* lines 505-557: the body, the field check, the stream, parseInput and the
\* first call.  request.json() of line 506 is awaited before the try of line
\* 519 and before the stream exists: when it rejects, so does POST
POST(body) ==
    /\ pc = "idle"
    /\ IF ~body.json
       THEN /\ response' = "threw"
            /\ pc' = "threw"
            /\ UNCHANGED <<input, apiKey, parsed, events, stream, calls,
                           inflight>>
       ELSE IF FieldsMissing(body.input, body.apiKey)
       THEN /\ input' = body.input
            /\ apiKey' = body.apiKey
            /\ response' = "400"
            /\ pc' = "rejected"
            /\ UNCHANGED <<parsed, events, stream, calls, inflight>>
       ELSE /\ input' = body.input
            /\ apiKey' = body.apiKey
            /\ response' = "stream"
            /\ stream' = "readable"
            /\ parsed' = parseInput(body.input)
            /\ inflight' = inflight + 1
            /\ CASE parsed'.type = "arxiv" ->
                      /\ events' = <<Status("parsing"), Status("arxiv")>>
                      /\ calls' = <<Call("fetchArxiv")>>
                      /\ pc' = "fetchArxiv"
                 [] parsed'.type = "url" ->
                      /\ events' = <<Status("parsing"), Status("webpage")>>
                      /\ calls' = <<Call("fetchWebPage")>>
                      /\ pc' = "fetchUrlPage"
                 [] OTHER ->
                      /\ events' = <<Status("parsing"), Status("scholar")>>
                      /\ calls' = <<Call("searchByTitle")>>
                      /\ pc' = "searchByTitle"
    /\ UNCHANGED <<functionVars, meta, fullText, impact, closes, searchResults,
                   upstream, offset, buf>>

\* lines 529, 629-654
FetchArxivReturns(res) ==
    /\ pc = "fetchArxiv"
    /\ LET m == fetchArxiv(parsed.id, res)
           r == IF m = Null THEN "none" ELSE "hit"
       IN IF stream # "readable"
          THEN Crash(r) /\ UNCHANGED <<meta, fullText>>
          ELSE AfterResolution(<<>>, r, m, 0)
    /\ UNCHANGED <<functionVars, input, apiKey, response, parsed, impact, searchResults,
                   upstream, offset, buf>>

\* the PaperMeta synthesized from a fetched page (lines 537-544, 601-608)
PageMeta(page, fallbackTitles, url) ==
    MkMeta(IF page.title # NoString THEN page.title
           ELSE IF fallbackTitles[1] # NoString THEN fallbackTitles[1]
           ELSE fallbackTitles[2],
           <<>>,
           IF page.text > AbstractCap THEN AbstractCap ELSE page.text,
           "", Hostname(url), NoString, url)

PageAccepted(page) == page # Null /\ page.text > MinPageText

\* lines 535-547, 629-654
FetchUrlPageReturns(res) ==
    /\ pc = "fetchUrlPage"
    /\ LET page == fetchWebPage(parsed.id, res)
           r == IF PageAccepted(page) THEN "hit" ELSE "none"
       IN IF stream # "readable"
          THEN Crash(r) /\ UNCHANGED <<meta, fullText>>
          ELSE IF PageAccepted(page)
          THEN AfterResolution(<<>>, r,
                   PageMeta(page, <<NoString, parsed.id>>, parsed.id),
                   page.text)
          ELSE AfterResolution(<<>>, r, Null, 0)
    /\ UNCHANGED <<functionVars, input, apiKey, response, parsed, impact, searchResults,
                   upstream, offset, buf>>

\* variant of SearchByTitleReturns that goes on to the arXiv search whatever
\* the title search returned
SearchByTitleReturns_NoStop(res) ==
    /\ pc = "searchByTitle"
    /\ LET m == searchByTitle(parsed.id, res)
           r == IF m = Null THEN "none" ELSE "hit"
       IN IF stream # "readable"
          THEN Crash(r) /\ UNCHANGED <<meta, fullText>>
          ELSE /\ Continue(<<Status("arxivSearch")>>, r,
                           "searchArxiv", "searchArxiv")
               /\ meta' = m
               /\ UNCHANGED fullText
    /\ UNCHANGED <<functionVars, input, apiKey, response, parsed, impact, searchResults,
                   upstream, offset, buf>>

\* lines 552-558
SearchByTitleReturns(res) ==
    /\ pc = "searchByTitle"
    /\ LET m == searchByTitle(parsed.id, res)
           r == IF m = Null THEN "none" ELSE "hit"
       IN IF stream # "readable"
          THEN Crash(r) /\ UNCHANGED <<meta, fullText>>
          ELSE IF m = Null
          THEN /\ Continue(<<Status("arxivSearch")>>, r,
                           "searchArxiv", "searchArxiv")
               /\ UNCHANGED <<meta, fullText>>
          ELSE AfterResolution(<<>>, r, m, 0)
    /\ UNCHANGED <<functionVars, input, apiKey, response, parsed, impact, searchResults,
                   upstream, offset, buf>>

\* lines 557-567
SearchArxivReturns(res1, res2) ==
    /\ pc = "searchArxiv"
    /\ LET m == searchArxiv(parsed.id, res1, res2)
           r == IF m = Null THEN "none" ELSE "hit"
       IN IF stream # "readable"
          THEN Crash(r) /\ UNCHANGED <<meta, fullText>>
          ELSE IF m = Null
          THEN /\ Continue(<<Status("exactMatch")>>, r,
                           "exactMatch", "exactMatch")
               /\ UNCHANGED <<meta, fullText>>
          ELSE AfterResolution(<<>>, r, m, 0)
    /\ UNCHANGED <<functionVars, input, apiKey, response, parsed, impact, searchResults,
                   upstream, offset, buf>>

\* lines 568-592
ExactMatchReturns(res) ==
    /\ pc = "exactMatch"
    /\ LET m == exactMatch(parsed.id, res)
           r == IF m = Null THEN "none" ELSE "hit"
       IN IF stream # "readable"
          THEN Crash(r) /\ UNCHANGED <<meta, fullText>>
          ELSE IF m = Null
          THEN /\ Continue(<<Status("webSearch")>>, r,
                           "webSearch", "webSearch")
               /\ UNCHANGED <<meta, fullText>>
          ELSE AfterResolution(<<>>, r, m, 0)
    /\ UNCHANGED <<functionVars, input, apiKey, response, parsed, impact, searchResults,
                   upstream, offset, buf>>

\* lines 592-597 and 617-654: the results to try, or the bare fallback
WebSearchReturns(res) ==
    /\ pc = "webSearch"
    /\ LET results == Slice(webSearch(parsed.id, res), 1, WebFetchTries)
       IN IF stream # "readable"
          THEN Crash("none") /\ UNCHANGED <<meta, fullText, searchResults>>
          ELSE IF results # <<>>
          THEN /\ Continue(<<Status("fetching")>>, "none",
                           "fetchWebPage", "fetchResultPage")
               /\ searchResults' = results
               /\ UNCHANGED <<meta, fullText>>
          ELSE /\ AfterResolution(<<Status("bare")>>, "none",
                                  BareMeta(parsed.id), 0)
               /\ UNCHANGED searchResults
    /\ UNCHANGED <<functionVars, input, apiKey, response, parsed, impact,
                   upstream, offset, buf>>

\* lines 595-654: one page of the web search results
FetchResultPageReturns(res) ==
    /\ pc = "fetchResultPage"
    /\ LET result == Head(searchResults)
           page == fetchWebPage(result.url, res)
           r == IF PageAccepted(page) THEN "hit" ELSE "none"
       IN IF stream # "readable"
          THEN Crash(r) /\ UNCHANGED <<meta, fullText, searchResults>>
          ELSE IF PageAccepted(page)
          THEN /\ AfterResolution(<<>>, r,
                     PageMeta(page, <<result.title, parsed.id>>, result.url),
                     page.text)
               /\ UNCHANGED searchResults
          ELSE IF Tail(searchResults) # <<>>
          THEN /\ Continue(<<Status("fetching")>>, r,
                           "fetchWebPage", "fetchResultPage")
               /\ searchResults' = Tail(searchResults)
               /\ UNCHANGED <<meta, fullText>>
          ELSE /\ AfterResolution(<<Status("bare")>>, r,
                                  BareMeta(parsed.id), 0)
               /\ searchResults' = Tail(searchResults)
    /\ UNCHANGED <<functionVars, input, apiKey, response, parsed, impact,
                   upstream, offset, buf>>

ErrorExcerpt == 200

\* lines 640-650
FetchFullTextReturns(res) ==
    /\ pc = "fetchFullText"
    /\ LET ft == fetchFullText(meta.arxivId, res)
           r == IF ft = 0 THEN "none" ELSE "hit"
       IN IF stream # "readable"
          THEN Crash(r) /\ UNCHANGED fullText
          ELSE /\ fullText' = ft
               /\ Continue(<<Status(IF ft # 0 THEN "gotFullText"
                                    ELSE "noFullText"),
                             Status("impact")>>, r,
                           "fetchImpact", "fetchImpact")
    /\ UNCHANGED <<functionVars, input, apiKey, response, parsed, meta, impact,
                   searchResults, upstream, offset, buf>>

\* variant of FetchImpactReturns for which a missing record is fatal
FetchImpactReturns_Fatal(res) ==
    /\ pc = "fetchImpact"
    /\ LET imp == fetchImpact(meta.title, meta.arxivId, res)
           r == IF imp = Null THEN "none" ELSE "hit"
       IN IF stream # "readable"
          THEN Crash(r) /\ UNCHANGED impact
          ELSE /\ impact' = imp
               /\ IF imp = Null
                  THEN Terminate(<<Ev("error", [message |-> "exception"])>>,
                                 r, <<"ok">>)
                  ELSE Continue(<<Ev("impact", imp), Status("analysis")>>, r,
                                "completion", "completion")
    /\ UNCHANGED <<functionVars, input, apiKey, response, parsed, meta, fullText,
                   searchResults, upstream, offset, buf>>

\* lines 650-674
FetchImpactReturns(res) ==
    /\ pc = "fetchImpact"
    /\ LET imp == fetchImpact(meta.title, meta.arxivId, res)
           r == IF imp = Null THEN "none" ELSE "hit"
       IN IF stream # "readable"
          THEN Crash(r) /\ UNCHANGED impact
          ELSE /\ impact' = imp
               /\ Continue((IF imp # Null THEN <<Ev("impact", imp)>> ELSE <<>>)
                             \o <<Status("analysis")>>, r,
                           "completion", "completion")
    /\ UNCHANGED <<functionVars, input, apiKey, response, parsed, meta, fullText,
                   searchResults, upstream, offset, buf>>

\* variant of UpstreamError that carries the whole error body
UpstreamError_Whole(res) ==
    Ev("error", [message |-> "upstream", status |-> res.status,
                 excerpt |-> res.errText])

\* line 678: the error event of a non-success status, with
\* errText.slice(0, 200) (excerpt is its length)
UpstreamError(res) ==
    Ev("error", [message |-> "upstream", status |-> res.status,
                 excerpt |-> IF res.errText > ErrorExcerpt
                             THEN ErrorExcerpt ELSE res.errText])

\* lines 658-689 and 709-714: the completion request returns
CompletionReturns(res) ==
    /\ pc = "completion"
    /\ IF res = Throw
       THEN /\ IF stream # "readable" THEN Crash("threw")
               ELSE Terminate(<<Ev("error", [message |-> "exception"])>>, "threw", <<"ok">>)
            /\ UNCHANGED <<upstream, offset, buf>>
       ELSE IF ~res.ok
       THEN /\ IF stream # "readable" THEN Crash("notOk")
               ELSE Terminate(<<UpstreamError(res)>>, "notOk", <<"ok", "threw">>)
            /\ UNCHANGED <<upstream, offset, buf>>
       ELSE /\ upstream' = res.body
            /\ offset' = 0
            /\ buf' = <<>>
            /\ calls' = Append(Returned("ok"), Call("read"))
            /\ inflight' = (inflight - 1) + 1
            /\ pc' = "read"
            /\ UNCHANGED <<events, stream, closes>>
    /\ UNCHANGED <<functionVars, input, apiKey, response, parsed, meta, fullText, impact,
                   searchResults>>

\* lines 689-706: reader.read() returns the next n bytes of the response
\* (upstream is the whole response, offset the number of bytes read); an
\* emit of 'chunk' that throws is swallowed by the inner catch
ReadChunk(n) ==
    /\ pc = "read"
    /\ n \in 1..(Len(upstream) - offset)
    /\ offset' = offset + n
    /\ \E value \in {Slice(upstream, offset + 1, offset + n)} :
       \E lines \in {SplitLines(buf \o value, 1, <<>>)} :
       \E sent \in {ChunkEvents(Slice(lines, 1, Len(lines) - 1), 1)} :
          /\ buf' = lines[Len(lines)]
          /\ events' = IF stream = "readable" THEN events \o sent ELSE events
    /\ UNCHANGED <<functionVars, pc, input, apiKey, response, parsed, meta, fullText, impact,
                   stream, closes, calls, inflight, searchResults, upstream>>

\* the reader, its decoder and its line buffer go out of scope when the
\* handler returns
ReleaseReader ==
    /\ upstream' = <<>>
    /\ offset' = 0
    /\ buf' = <<>>

\* variant of ReadDone that closes the stream without emitting 'done'
ReadDone_Silent ==
    /\ pc = "read"
    /\ offset = Len(upstream)
    /\ IF stream # "readable" THEN Crash("ok")
       ELSE Terminate(<<>>, "ok", <<"ok">>)
    /\ ReleaseReader
    /\ UNCHANGED <<functionVars, input, apiKey, response, parsed, meta, fullText, impact,
                   searchResults>>

\* lines 689-690, 708-714: reader.read() reports the end of the response;
\* what is left in buf is not looked at
ReadDone ==
    /\ pc = "read"
    /\ offset = Len(upstream)
    /\ IF stream # "readable" THEN Crash("ok")
       ELSE Terminate(<<Ev("done", [empty |-> TRUE])>>, "ok", <<"ok">>)
    /\ ReleaseReader
    /\ UNCHANGED <<functionVars, input, apiKey, response, parsed, meta, fullText, impact,
                   searchResults>>

\* lines 689, 709-714: reader.read() rejects (the connection broke)
ReadThrows ==
    /\ pc = "read"
    /\ IF stream # "readable" THEN Crash("threw")
       ELSE Terminate(<<Ev("error", [message |-> "exception"])>>, "threw", <<"ok">>)
    /\ ReleaseReader
    /\ UNCHANGED <<functionVars, input, apiKey, response, parsed, meta, fullText, impact,
                   searchResults>>

\* the caller aborts the request: the output stream is cancelled; the
\* ReadableStream has no cancel callback, so the handler is not told
Abort ==
    /\ stream = "readable"
    /\ pc \notin {"idle", "rejected", "threw", "done"}
    /\ stream' = "cancelled"
    /\ UNCHANGED <<functionVars, pc, input, apiKey, response, parsed, meta, fullText, impact,
                   events, closes, calls, inflight, searchResults,
                   upstream, offset, buf>>

Next ==
    \/ \E body \in Bodies : POST(body)
    \/ \E res \in ArxivResponses : FetchArxivReturns(res)
    \/ \E res \in PageResponses : FetchUrlPageReturns(res)
    \/ \E res \in ScholarResponses : SearchByTitleReturns(res)
    \/ \E res1 \in ArxivResponses, res2 \in ArxivResponses :
           SearchArxivReturns(res1, res2)
    \/ \E res \in ScholarResponses : ExactMatchReturns(res)
    \/ \E res \in WebSearchResponses : WebSearchReturns(res)
    \/ \E res \in PageResponses : FetchResultPageReturns(res)
    \/ \E res \in FullTextResponses : FetchFullTextReturns(res)
    \/ \E res \in ImpactResponses : FetchImpactReturns(res)
    \/ \E res \in QwenResponses : CompletionReturns(res)
    \/ \E n \in 1..Len(upstream) : ReadChunk(n)
    \/ ReadDone
    \/ ReadThrows
    \/ Abort

Spec == Init /\ [][Next]_vars

\* the resumptions of the handler (everything but the request and the
\* abort), each at the await it is suspended at
HandlerStep ==
    \/ pc = "fetchArxiv" /\ \E res \in ArxivResponses : FetchArxivReturns(res)
    \/ pc = "fetchUrlPage" /\ \E res \in PageResponses : FetchUrlPageReturns(res)
    \/ pc = "searchByTitle"
          /\ \E res \in ScholarResponses : SearchByTitleReturns(res)
    \/ pc = "searchArxiv"
          /\ \E res1 \in ArxivResponses, res2 \in ArxivResponses :
                 SearchArxivReturns(res1, res2)
    \/ pc = "exactMatch" /\ \E res \in ScholarResponses : ExactMatchReturns(res)
    \/ pc = "webSearch" /\ \E res \in WebSearchResponses : WebSearchReturns(res)
    \/ pc = "fetchResultPage"
          /\ \E res \in PageResponses : FetchResultPageReturns(res)
    \/ pc = "fetchFullText"
          /\ \E res \in FullTextResponses : FetchFullTextReturns(res)
    \/ pc = "fetchImpact" /\ \E res \in ImpactResponses : FetchImpactReturns(res)
    \/ pc = "completion" /\ \E res \in QwenResponses : CompletionReturns(res)
    \/ pc = "read" /\ \E n \in 1..Len(upstream) : ReadChunk(n)
    \/ ReadDone
    \/ ReadThrows

\* every external call eventually returns, fails or times out
LiveSpec == Spec /\ WF_vars(HandlerStep)

\* the request up to the completion call: resolution, full text and impact
NextResolution ==
    \/ \E body \in Bodies : POST(body)
    \/ \E res \in ArxivResponses : FetchArxivReturns(res)
    \/ \E res \in PageResponses : FetchUrlPageReturns(res)
    \/ \E res \in ScholarResponses : SearchByTitleReturns(res)
    \/ \E res1 \in ArxivResponses, res2 \in ArxivResponses :
           SearchArxivReturns(res1, res2)
    \/ \E res \in ScholarResponses : ExactMatchReturns(res)
    \/ \E res \in WebSearchResponses : WebSearchReturns(res)
    \/ \E res \in PageResponses : FetchResultPageReturns(res)
    \/ \E res \in FullTextResponses : FetchFullTextReturns(res)
    \/ \E res \in ImpactResponses : FetchImpactReturns(res)
    \/ Abort

ResolutionSpec == Init /\ [][NextResolution]_vars

(***************************************************************************)
(* The resolution of queries without an ASCII letter or digit: blank,      *)
(* punctuation only (any text the scorer strips whole, such as Chinese)    *)
(* and the Kelvin sign, against services that return papers titled like    *)
(* the query                                                               *)
(***************************************************************************)
I_blank == <<" ", " ">>

I_symbols == <<"!", "?">>

I_kelvin == <<C_kelvin>>

WordlessInputs == {I_blank, I_symbols, I_kelvin}

T_k == <<"k">>

WordlessScholarResponses ==
    {Throw, NotOk}
      \cup { Ok(b) : b \in SeqUpTo({Paper(I_symbols, NoString),
                                    Paper(T_k, Id_1706)}, MaxCands) }

WordlessArxivResponses ==
    {Throw, NotOk}
      \cup { Ok(b) : b \in SeqUpTo({Entry(I_symbols, NoString),
                                    Entry(T_k, Id_1706)}, MaxCands) }

NextWordless ==
    \/ \E in \in WordlessInputs : POST(Body(TRUE, in, "sk"))
    \/ \E res \in WordlessScholarResponses : SearchByTitleReturns(res)
    \/ \E res1 \in WordlessArxivResponses, res2 \in WordlessArxivResponses :
           SearchArxivReturns(res1, res2)
    \/ \E res \in WordlessScholarResponses : ExactMatchReturns(res)
    \/ \E res \in WebSearchResponses : WebSearchReturns(res)
    \/ \E res \in PageResponses : FetchResultPageReturns(res)
    \/ \E res \in FullTextResponses : FetchFullTextReturns(res)
    \/ \E res \in ImpactResponses : FetchImpactReturns(res)
    \/ Abort

WordlessSpec == Init /\ [][NextWordless]_vars

(***************************************************************************)
(* The resolution when a remote service may stay silent: a call is         *)
(* answered, or the service never responds and only the timer that the     *)
(* adapter has set on the call, if any, ends it                            *)
(***************************************************************************)
\* the timeout in ms that the adapter sets on its network call, 0 when it
\* sets none: line 40 (none), 88, 304, 566, 150, 182, 217, 266
Timeout(name) ==
    CASE name = "fetchArxiv" -> 0
      [] name = "searchArxiv" -> 10000
      [] name = "searchByTitle" -> 8000
      [] name = "exactMatch" -> 8000
      [] name = "webSearch" -> 12000
      [] name = "fetchWebPage" -> 15000
      [] name = "fetchFullText" -> 15000
      [] name = "fetchImpact" -> 8000

\* the awaits of the handler at which a source adapter is outstanding
AdapterPcs ==
    {"fetchArxiv", "fetchUrlPage", "searchByTitle", "searchArxiv",
     "exactMatch", "webSearch", "fetchResultPage", "fetchFullText",
     "fetchImpact"}

\* the service of the outstanding call has gone silent
Silent == calls # <<>> /\ calls[Len(calls)].result = "silent"

\* the service of the outstanding call never responds
NeverResponds ==
    /\ pc \in AdapterPcs
    /\ calls[Len(calls)].result = "pending"
    /\ calls' = Returned("silent")
    /\ UNCHANGED <<functionVars, pc, input, apiKey, response, parsed, meta,
                   fullText, impact, events, stream, closes, inflight,
                   searchResults, upstream, offset, buf>>

\* AbortSignal.timeout (the timeout option of execSync for webSearch) ends
\* the silent call: the fetch rejects and the catch of the adapter returns
\* null, '' or []
TimerFires ==
    /\ Silent
    /\ Timeout(calls[Len(calls)].name) > 0
    /\ \/ FetchArxivReturns(Throw)
       \/ FetchUrlPageReturns(Throw)
       \/ SearchByTitleReturns(Throw)
       \/ SearchArxivReturns(Throw, Throw)
       \/ ExactMatchReturns(Throw)
       \/ WebSearchReturns(Throw)
       \/ FetchResultPageReturns(Throw)
       \/ FetchFullTextReturns(Throw)
       \/ FetchImpactReturns(Throw)

\* the service answers the outstanding call
Responds ==
    /\ ~Silent
    /\ \/ \E res \in ArxivResponses : FetchArxivReturns(res)
       \/ \E res \in PageResponses : FetchUrlPageReturns(res)
       \/ \E res \in ScholarResponses : SearchByTitleReturns(res)
       \/ \E res1 \in ArxivResponses, res2 \in ArxivResponses :
              SearchArxivReturns(res1, res2)
       \/ \E res \in ScholarResponses : ExactMatchReturns(res)
       \/ \E res \in WebSearchResponses : WebSearchReturns(res)
       \/ \E res \in PageResponses : FetchResultPageReturns(res)
       \/ \E res \in FullTextResponses : FetchFullTextReturns(res)
       \/ \E res \in ImpactResponses : FetchImpactReturns(res)

NextTimeout ==
    \/ \E body \in Bodies : POST(body)
    \/ NeverResponds
    \/ TimerFires
    \/ Responds
    \/ Abort

TimeoutSpec == Init /\ [][NextTimeout]_vars

(***************************************************************************)
(* The classifier on its own: parseInput applied to one input string       *)
(***************************************************************************)
Id_1706_4 == <<"1","7","0","6",".","0","3","7","6">>

Doi_acm == <<"1","0",".","1","1","4","5","/","3","1","2","3","4","5","6",
             ".","3","1","2","3","4","5","7">>

Doi_short == <<"1","0",".","1","2","3","4","/","a">>

S_ArxivPdfUpper == <<"A","r","X","i","v",".","o","r","g","/","p","d","f","/">>

Leads == {NoString, <<" ">>}

Schemes == {NoString, S_http, S_https}

Cores == {NoString, <<"x">>, Q_title, Id_1706, Id_1706_4,
          S_arxivAbs \o Id_1706, S_arxivAbs \o Id_1706_4,
          S_ArxivPdfUpper \o Id_1706, Doi_acm, Doi_short}

Tails == {NoString, <<" ">>, <<"v","3">>, <<"/","p">>}

ClassifierInputs ==
    { l \o sc \o c \o t : l \in Leads, sc \in Schemes, c \in Cores, t \in Tails }

ParseInit ==
    /\ pc = "idle"
    /\ input \in ClassifierInputs
    /\ apiKey = ""
    /\ response = "none"
    /\ parsed = Null
    /\ meta = Null
    /\ fullText = 0
    /\ impact = Null
    /\ events = <<>>
    /\ stream = "none"
    /\ closes = <<>>
    /\ calls = <<>>
    /\ inflight = 0
    /\ searchResults = <<>>
    /\ upstream = <<>>
    /\ offset = 0
    /\ buf = <<>>
    /\ titleA = <<>>
    /\ titleB = <<>>
    /\ similarity = [num |-> 0, den |-> 1]
    /\ stripped = <<>>
    /\ capped = <<>>
    /\ ClientIdle

\* line 521
Classify ==
    /\ pc = "idle"
    /\ parsed' = parseInput(input)
    /\ pc' = "classified"
    /\ UNCHANGED <<functionVars, input, apiKey, response, meta, fullText, impact, events,
                   stream, closes, calls, inflight, searchResults,
                   upstream, offset, buf>>

NextParse == Classify

ParseSpec == ParseInit /\ [][NextParse]_vars

(***************************************************************************)
(* The scorer on its own: titleSimilarity applied to two titles            *)
(***************************************************************************)
ScoreTitles ==
    {NoString, <<" ">>, <<"!">>, <<"a">>, <<"A">>, <<"a","b">>,
     <<"a"," ","b">>, <<"b"," ","a">>, <<"a","-","b">>,
     <<"a"," ","a"," ","b">>, <<"A",","," ","b","!">>,
     <<"a"," ","b"," ","7">>, Q_title, T_edge}

ScoreInit ==
    /\ pc = "idle"
    /\ titleA \in ScoreTitles
    /\ titleB \in ScoreTitles
    /\ similarity = ZeroScore
    /\ stripped = <<>>
    /\ capped = <<>>
    /\ input = NoString
    /\ apiKey = ""
    /\ response = "none"
    /\ parsed = Null
    /\ meta = Null
    /\ fullText = 0
    /\ impact = Null
    /\ events = <<>>
    /\ stream = "none"
    /\ closes = <<>>
    /\ calls = <<>>
    /\ inflight = 0
    /\ searchResults = <<>>
    /\ upstream = <<>>
    /\ offset = 0
    /\ buf = <<>>
    /\ ClientIdle

\* lines 313, 572: titleSimilarity is called on a query and a candidate
Score ==
    /\ pc = "idle"
    /\ similarity' = titleSimilarity(titleA, titleB)
    /\ pc' = "scored"
    /\ UNCHANGED <<titleA, titleB, stripped, capped, input, apiKey, response,
                   parsed, meta, fullText, impact, events, stream, closes,
                   calls, inflight, searchResults, upstream, offset, buf,
                   clientVars>>

NextScore == Score

ScoreSpec == ScoreInit /\ [][NextScore]_vars

(***************************************************************************)
(* The text cap on its own: the last step of fetchWebPage and of           *)
(* fetchFullText applied to one stripped text                              *)
(***************************************************************************)
HeadLengths == {0, 1, 49999, 50000, 50001, 60000, 100000}

TailLengths == {0, 1, 16, 20, 50000, 50001}

\* stripped texts of two segments, of lengths below, at and above the cap
StrippedTexts ==
    { (IF h = 0 THEN <<>> ELSE <<Seg("head", h)>>)
        \o (IF t = 0 THEN <<>> ELSE <<Seg("tail", t)>>) :
      h \in HeadLengths, t \in TailLengths }

CapInit ==
    /\ pc = "idle"
    /\ stripped \in StrippedTexts
    /\ capped = <<>>
    /\ titleA = <<>>
    /\ titleB = <<>>
    /\ similarity = ZeroScore
    /\ input = NoString
    /\ apiKey = ""
    /\ response = "none"
    /\ parsed = Null
    /\ meta = Null
    /\ fullText = 0
    /\ impact = Null
    /\ events = <<>>
    /\ stream = "none"
    /\ closes = <<>>
    /\ calls = <<>>
    /\ inflight = 0
    /\ searchResults = <<>>
    /\ upstream = <<>>
    /\ offset = 0
    /\ buf = <<>>
    /\ ClientIdle

\* lines 205-206: fetchWebPage caps the stripped text and returns it
CapPage ==
    /\ pc = "idle"
    /\ capped' = capText(stripped, PageMarker)
    /\ pc' = "cappedPage"
    /\ UNCHANGED <<titleA, titleB, similarity, stripped, input, apiKey,
                   response, parsed, meta, fullText, impact, events, stream,
                   closes, calls, inflight, searchResults, upstream, offset,
                   buf, clientVars>>

\* lines 239-240: fetchFullText caps the stripped text and returns it
CapPaper ==
    /\ pc = "idle"
    /\ capped' = capText(stripped, PaperMarker)
    /\ pc' = "cappedPaper"
    /\ UNCHANGED <<titleA, titleB, similarity, stripped, input, apiKey,
                   response, parsed, meta, fullText, impact, events, stream,
                   closes, calls, inflight, searchResults, upstream, offset,
                   buf, clientVars>>

NextCap == CapPage \/ CapPaper

CapSpec == CapInit /\ [][NextCap]_vars

(***************************************************************************)
(* The impact adapter on its own: fetchImpact called once, with the        *)
(* requests it sends logged in calls                                       *)
(***************************************************************************)
\* the variables that an adapter run on its own neither reads nor writes
AdapterIdle ==
    /\ input = NoString
    /\ apiKey = ""
    /\ response = "none"
    /\ fullText = 0
    /\ events = <<>>
    /\ stream = "none"
    /\ closes = <<>>
    /\ inflight = 0
    /\ upstream = <<>>
    /\ offset = 0
    /\ buf = <<>>
    /\ titleA = <<>>
    /\ titleB = <<>>
    /\ similarity = ZeroScore
    /\ stripped = <<>>
    /\ capped = <<>>
    /\ ClientIdle

\* lines 260-265: the one URL fetchImpact builds, the id-keyed lookup when
\* arxivId is set and the title search otherwise
ImpactRequest(title, arxivId) ==
    IF arxivId # NoString THEN "idLookup" ELSE "titleSearch"

\* the papers fetchImpact is called for: meta.title and meta.arxivId
ImpactMetas ==
    { MkMeta(t, <<>>, 0, "", NoString, id, NoString) :
        t \in {Q_title, T_low, T_high, T_edge, T_page, T_Error, Id_1706},
        id \in {NoString, Id_1706, Id_1706 \o <<"v","3">>} }

ImpactInit ==
    /\ pc = "idle"
    /\ meta \in ImpactMetas
    /\ parsed = Null
    /\ impact = Null
    /\ calls = <<>>
    /\ searchResults = <<>>
    /\ AdapterIdle

\* lines 257-284: one call of fetchImpact; res is the answer to the request
\* it sends (a lookup answered 200 always carries a paper)
FetchImpact(res) ==
    /\ pc = "idle"
    /\ \E req \in {ImpactRequest(meta.title, meta.arxivId)} :
          /\ (req = "idLookup" /\ res # Throw /\ res # NotOk) => res.body # <<>>
          /\ impact' = fetchImpact(meta.title, meta.arxivId, res)
          /\ calls' = <<[name |-> req,
                         result |-> IF res = Throw THEN "threw"
                                    ELSE IF res = NotOk THEN "notOk"
                                    ELSE IF res.body = <<>> THEN "empty"
                                    ELSE "hit"]>>
    /\ pc' = "impactFetched"
    /\ UNCHANGED <<functionVars, input, apiKey, response, parsed, meta,
                   fullText, events, stream, closes, inflight, searchResults,
                   upstream, offset, buf>>

ImpactAnswers ==
    ImpactResponses
      \cup {Ok(<<[citationCount |-> 0, influentialCitationCount |-> 0]>>)}

NextImpact == \E res \in ImpactAnswers : FetchImpact(res)

ImpactSpec == ImpactInit /\ [][NextImpact]_vars

(***************************************************************************)
(* The arXiv search on its own: searchArxiv(parsed.id) called once, with   *)
(* the queries it sends logged in calls                                    *)
(***************************************************************************)
ArxivQueries == {Q_title, T_low, <<"!">>}

ArxivSearchInit ==
    /\ pc = "idle"
    /\ parsed \in {[type |-> "title", id |-> q] : q \in ArxivQueries}
    /\ meta = Null
    /\ impact = Null
    /\ calls = <<>>
    /\ searchResults = <<>>
    /\ AdapterIdle

\* lines 80-140: one call of searchArxiv
SearchArxiv(res1, res2) ==
    /\ pc = "idle"
    /\ meta' = searchArxiv(parsed.id, res1, res2)
    /\ calls' = ArxivRequests(parsed.id, res1, res2)
    /\ pc' = "arxivSearched"
    /\ UNCHANGED <<functionVars, input, apiKey, response, parsed, fullText,
                   impact, events, stream, closes, inflight, searchResults,
                   upstream, offset, buf>>

NextArxivSearch ==
    \E res1 \in ArxivResponses, res2 \in ArxivResponses : SearchArxiv(res1, res2)

ArxivSearchSpec == ArxivSearchInit /\ [][NextArxivSearch]_vars

(***************************************************************************)
(* The relay of responses with malformed frames: one request for a URL is  *)
(* taken to the completion request, which is answered with lines of every  *)
(* kind, each ended by a line feed                                         *)
(***************************************************************************)
MaxLines == 2

\* a line without the data: prefix
L_comment == <<":", " ", "k">>

\* data: [DONE]
L_DONE == S_data \o S_DONE

\* a payload that JSON.parse rejects
L_badJson == S_data \o <<"{", "A">>

\* a JSON payload without choices[0].delta.content
L_noContent == S_data \o <<"{", "}">>

UpstreamLines == {F_A, F_B, L_comment, L_DONE, L_badJson, L_noContent}

RECURSIVE JoinLines(_)
JoinLines(ls) ==
    IF ls = <<>> THEN <<>> ELSE Head(ls) \o <<"\n">> \o JoinLines(Tail(ls))

LineBodies == { JoinLines(ls) : ls \in SeqUpTo(UpstreamLines, MaxLines) }

NextRelay ==
    \/ POST(Body(TRUE, I_url, "sk"))
    \/ FetchUrlPageReturns(Ok([title |-> T_page, text |-> 201]))
    \/ \E res \in ImpactResponses : FetchImpactReturns(res)
    \/ \E b \in LineBodies : CompletionReturns(Ok(b))
    \/ \E n \in 1..Len(upstream) : ReadChunk(n)
    \/ ReadDone

RelaySpec == Init /\ [][NextRelay]_vars

(***************************************************************************)
(* The page component Home, lines 762-848.  Every call of handleAnalyze    *)
(* is one request; it runs from one await to the next without              *)
(* interleaving, and several calls can be suspended at once.               *)
(*   requests  where each call of handleAnalyze is: "unstarted",           *)
(*             "fetching" (suspended at await fetch, line 793),            *)
(*             "reading" (suspended at await reader.read(), line 805),     *)
(*             "aborted" (its signal was aborted and the pending await     *)
(*             will reject with an AbortError) or "ended" (finally ran)    *)
(*   abortRef  the request whose AbortController abortRef.current holds,   *)
(*             0 for null                                                  *)
(*   analysis  the requests whose chunk texts make up the analysis cell    *)
(***************************************************************************)
\* the variables of the route handler and of the functions run on their own
serverVars == <<pc, input, apiKey, response, parsed, meta, fullText, impact,
                events, stream, closes, calls, inflight, searchResults,
                upstream, offset, buf, titleA, titleB, similarity, stripped,
                capped>>

InFlight == {"fetching", "reading"}

\* the arguments handleAnalyze resolves to a query (line 776)
ClientQueries == {<<>>, Id_1706, Q_title}

\* AbortController.abort on the controller of request id: the pending fetch
\* or read of a request in flight will reject; a no-op on a request that has
\* ended or was aborted already, and on null (the ?. of lines 788 and 845)
AbortCurrent(reqs, id) ==
    IF id # 0 /\ reqs[id] \in InFlight
    THEN [reqs EXCEPT ![id] = "aborted"]
    ELSE reqs

\* lines 775-798: handleAnalyze up to its first await
handleAnalyze(query) ==
    /\ query # <<>>
    /\ \E id \in RequestIds :
        /\ requests[id] = "unstarted"
        /\ \A j \in RequestIds : j < id => requests[j] # "unstarted"
        /\ isLoading' = TRUE
        /\ status' = Cell("starting", id)
        /\ shownMeta' = Cell("null", id)
        /\ shownImpact' = Cell("null", id)
        /\ analysis' = <<>>
        /\ error' = Cell("", id)
        /\ requests' = [AbortCurrent(requests, abortRef) EXCEPT ![id] = "fetching"]
        /\ abortRef' = id
    /\ UNCHANGED serverVars

\* lines 793-802: fetch resolves with the response and the first read starts
FetchResolves(id) ==
    /\ requests[id] = "fetching"
    /\ requests' = [requests EXCEPT ![id] = "reading"]
    /\ UNCHANGED <<isLoading, status, shownMeta, shownImpact, analysis, error,
                   abortRef, serverVars>>

ClientEvents == {"status", "metadata", "impact", "chunk", "error", "done"}

\* lines 805-832: a read delivers one event of the stream and the next read
\* starts; the switch of lines 822-832
ReadEvent(id, evt) ==
    /\ requests[id] = "reading"
    /\ status' = CASE evt = "status" -> Cell("message", id)
                   [] evt = "done" -> Cell("finished", id)
                   [] OTHER -> status
    /\ shownMeta' = IF evt = "metadata" THEN Cell("meta", id) ELSE shownMeta
    /\ shownImpact' = IF evt = "impact" THEN Cell("impact", id) ELSE shownImpact
    /\ IF evt = "chunk"
       THEN Len(analysis) < MaxChunks /\ analysis' = Append(analysis, id)
       ELSE UNCHANGED analysis
    /\ error' = IF evt = "error" THEN Cell("message", id) ELSE error
    /\ UNCHANGED <<isLoading, abortRef, requests, serverVars>>

\* lines 805-806, 839-841: the stream ends, the loop breaks and finally runs
ReadEnds(id) ==
    /\ requests[id] = "reading"
    /\ isLoading' = FALSE
    /\ requests' = [requests EXCEPT ![id] = "ended"]
    /\ UNCHANGED <<status, shownMeta, shownImpact, analysis, error, abortRef,
                   serverVars>>

\* lines 834-841: fetch or read rejects with a network error, or JSON.parse
\* throws on line 821; catch sets the error and finally runs
RequestFails(id) ==
    /\ requests[id] \in InFlight
    /\ error' = Cell("network", id)
    /\ isLoading' = FALSE
    /\ requests' = [requests EXCEPT ![id] = "ended"]
    /\ UNCHANGED <<status, shownMeta, shownImpact, analysis, abortRef,
                   serverVars>>

\* lines 834-841: the pending await of an aborted request rejects with an
\* AbortError; catch ignores it (line 835) and finally runs (line 840)
RequestAborted(id) ==
    /\ requests[id] = "aborted"
    /\ isLoading' = FALSE
    /\ requests' = [requests EXCEPT ![id] = "ended"]
    /\ UNCHANGED <<status, shownMeta, shownImpact, analysis, error, abortRef,
                   serverVars>>

\* lines 844-848
handleStop ==
    /\ requests' = AbortCurrent(requests, abortRef)
    /\ isLoading' = FALSE
    /\ status' = Cell("stopped", abortRef)
    /\ UNCHANGED <<shownMeta, shownImpact, analysis, error, abortRef,
                   serverVars>>

NextClient ==
    \/ \E query \in ClientQueries : handleAnalyze(query)
    \/ \E id \in RequestIds : FetchResolves(id)
    \/ \E id \in RequestIds, evt \in ClientEvents : ReadEvent(id, evt)
    \/ \E id \in RequestIds : ReadEnds(id)
    \/ \E id \in RequestIds : RequestFails(id)
    \/ \E id \in RequestIds : RequestAborted(id)
    \/ handleStop

ClientSpec == Init /\ [][NextClient]_vars

(***************************************************************************)
(* Properties of the event stream                                          *)
(***************************************************************************)
IsTerminal(e) == e.event \in {"done", "error"}

Terminals == { i \in DOMAIN events : IsTerminal(events[i]) }

HasEvent(name) == \E i \in DOMAIN events : events[i].event = name

EndsWithTerminal == events # <<>> /\ IsTerminal(events[Len(events)])

\* C1: a stream carries at most one terminal event (done or error), no
\* event follows a terminal event, and a stream the handler has closed ends
\* with its terminal event.
C1_OneTerminalLast ==
    /\ Cardinality(Terminals) <= 1
    /\ \A i \in Terminals : i = Len(events)
    /\ stream = "closed" => EndsWithTerminal

C1_Witness ==
    /\ stream = "closed"
    /\ HasEvent("chunk")
    /\ events[Len(events)].event = "done"

\* C2: once the stream is opened, the handler eventually emits a terminal
\* event and closes the stream, unless the caller aborts; every external
\* call is assumed to return (LiveSpec).
C2_Terminates ==
    [](response = "stream"
         => <>(stream = "cancelled" \/ (stream = "closed" /\ EndsWithTerminal)))

C2_Witness ==
    /\ pc = "done"
    /\ stream = "closed"
    /\ HasEvent("metadata")
    /\ events[Len(events)].event = "error"

\* the concatenation of the text of the chunk events of evs, in order
RECURSIVE ChunkText(_, _)
ChunkText(evs, i) ==
    IF i > Len(evs) THEN <<>>
    ELSE (IF evs[i].event = "chunk" THEN evs[i].data.text ELSE <<>>)
         \o ChunkText(evs, i + 1)

\* the concatenation of the fragments carried by the data: frames of a
\* response, in arrival order, its last line included
RECURSIVE FragmentText(_, _)
FragmentText(lines, i) ==
    IF i > Len(lines) THEN <<>>
    ELSE LineContent(lines[i]) \o FragmentText(lines, i + 1)

Fragments(body) == FragmentText(SplitLines(body, 1, <<>>), 1)

\* C3: when the relay ends with done, the chunk texts concatenated in
\* emission order equal the fragments of the upstream frames concatenated
\* in arrival order, whatever the split into reads.
C3_RelayComplete ==
    [][(pc = "read" /\ pc' = "done" /\ HasEvent("done")')
          => ChunkText(events', 1) = Fragments(upstream)]_vars

(***************************************************************************)
(* Properties of the resolution stages (ResolutionSpec)                    *)
(***************************************************************************)
ResolutionAdapters ==
    {"searchByTitle", "searchArxiv", "exactMatch", "webSearch", "fetchWebPage"}

ResolutionCalls == { i \in DOMAIN calls : calls[i].name \in ResolutionAdapters }

ResolutionPcs ==
    {"fetchArxiv", "fetchUrlPage", "searchByTitle", "searchArxiv",
     "exactMatch", "webSearch", "fetchResultPage"}

\* the resolution stage is over and the caller had not gone away before
\* its outcome was emitted
ResolutionOver ==
    /\ parsed # Null
    /\ pc \notin ResolutionPcs
    /\ ~(stream = "cancelled" /\ ~HasEvent("metadata") /\ ~HasEvent("error"))

\* the four searching stages have all run and none has yielded a result
AllAdaptersFailed ==
    /\ \E i \in ResolutionCalls : calls[i].name = "webSearch"
    /\ \A i \in ResolutionCalls : calls[i].result = "none"

MetadataEvents == { i \in DOMAIN events : events[i].event = "metadata" }

IsBare(m, title) ==
    /\ m.title = title
    /\ m.authors = <<>>
    /\ m.abstract = 0
    /\ m.year = ""
    /\ m.venue = NoString

\* C4 as stated: the bare fallback carries the query exactly as supplied
C4_TitleVerbatim ==
    (parsed # Null /\ parsed.type \in {"title", "doi"}
       /\ ResolutionOver /\ AllAdaptersFailed)
    => \E i \in MetadataEvents : IsBare(events[i].data, input)

\* C4: for a title or doi query whose four searching stages all yield
\* nothing, a metadata event is emitted whose title is the classified
\* value (the trimmed query for a title, the DOI found in the trimmed query
\* for a doi) and whose authors, abstract, year and venue are empty.
C4_BareFallback ==
    (parsed # Null /\ parsed.type \in {"title", "doi"}
       /\ ResolutionOver /\ AllAdaptersFailed)
    => /\ Cardinality(MetadataEvents) = 1
       /\ \A i \in MetadataEvents :
            IsBare(events[i].data,
                   IF parsed.type = "title" THEN trim(input)
                   ELSE DoiCapture(trim(input)))

C4_Witness ==
    /\ input = I_padded
    /\ parsed # Null
    /\ parsed.type = "title"
    /\ AllAdaptersFailed
    /\ \E i \in ResolutionCalls :
          calls[i].name = "fetchWebPage" /\ calls[i].result = "none"
    /\ \E i \in MetadataEvents : events[i].data.title = Q_title

\* C5: an error event without a preceding metadata event occurs only for a
\* query classified as arxiv or url; for a doi or title query the resolution
\* stage ends with a metadata event whatever the adapters returned.
C5_HardFailureOnlyArxivUrl ==
    /\ (HasEvent("error") /\ ~HasEvent("metadata"))
          => parsed.type \in {"arxiv", "url"}
    /\ (ResolutionOver /\ parsed.type \in {"doi", "title"})
          => (HasEvent("metadata") /\ ~HasEvent("error"))

C5_Witness ==
    /\ parsed # Null
    /\ parsed.type = "url"
    /\ HasEvent("error")
    /\ ~HasEvent("metadata")
    /\ pc = "done"

\* the adapters of the stages of a doi or title query, in order; the last
\* one is called once per web search result tried
StageOrder ==
    <<"searchByTitle", "searchArxiv", "exactMatch", "webSearch", "fetchWebPage">>

StageOf(k) == StageOrder[IF k < Len(StageOrder) THEN k ELSE Len(StageOrder)]

\* C6: for a doi or title query the k-th resolution call is the adapter of
\* the k-th stage, a call is issued only when every earlier call has
\* returned without a result, at most one call is outstanding, no
\* resolution call follows a result, and the bare fallback comes only after
\* all of them.
C6_StrictOrder ==
    (parsed # Null /\ parsed.type \in {"doi", "title"})
    => /\ inflight <= 1
       /\ \A i \in DOMAIN calls : calls[i].result = "pending" => i = Len(calls)
       /\ \A i \in ResolutionCalls :
            /\ calls[i].name = StageOf(i)
            /\ \A j \in 1..(i - 1) : calls[j].result = "none"
       /\ Cardinality({ i \in ResolutionCalls : calls[i].name = "fetchWebPage" })
             <= WebFetchTries
       /\ HasEvent("metadata")
             => \/ \E i \in ResolutionCalls :
                      /\ calls[i].result = "hit"
                      /\ \A j \in ResolutionCalls : j <= i
                \/ AllAdaptersFailed

C6_Witness ==
    /\ parsed # Null
    /\ parsed.type = "title"
    /\ HasEvent("metadata")
    /\ Len(calls) >= 6
    /\ calls[5].name = "fetchWebPage" /\ calls[5].result = "none"
    /\ calls[6].name = "fetchWebPage" /\ calls[6].result = "hit"

ScoringAdapters == {"searchByTitle", "searchArxiv", "exactMatch"}

\* the best score among the candidates of a response body is num/den
BestIs(query, body, num, den) ==
    /\ \E k \in 1..Len(body) :
          titleSimilarity(query, body[k].title).num * den
             = num * titleSimilarity(query, body[k].title).den
    /\ \A k \in 1..Len(body) :
          titleSimilarity(query, body[k].title).num * den
             <= num * titleSimilarity(query, body[k].title).den

\* metadata that follows the hit of a scoring adapter scores at least 4/10
C7_NoLowCandidate ==
    \A i \in MetadataEvents :
        (\E j \in DOMAIN calls :
            calls[j].name \in ScoringAdapters /\ calls[j].result = "hit")
        => titleSimilarity(parsed.id, events[i].data.title).num * 10
              >= 4 * titleSimilarity(parsed.id, events[i].data.title).den

\* the title search responses whose best candidate scores 2/10 against
\* the title query Q_title, and the arXiv feeds whose best scores 6/10
LowScholarResponses ==
    { res \in ScholarResponses \ {Throw, NotOk} :
        BestIs(Q_title, res.body, 2, 10) }

HighArxivResponses ==
    { res \in ArxivResponses \ {Throw, NotOk} :
        BestIs(Q_title, res.body, 6, 10) }

\* the metadata emitted is a candidate of the feed res that scores 6/10
SelectedFrom(res, evs, m) ==
    /\ m # Null
    /\ \E i \in DOMAIN evs : evs[i].event = "metadata" /\ evs[i].data = m
    /\ \E k \in 1..Len(res.body) : res.body[k].title = m.title
    /\ titleSimilarity(Q_title, m.title).num * 10
          = 6 * titleSimilarity(Q_title, m.title).den

\* for the query Q_title: a title search whose best candidate scores 2/10
\* emits no metadata and hands over to the arXiv search; an arXiv search
\* whose first feed has a best candidate scoring 6/10 makes that candidate
\* the metadata (the second feed is then not requested)
C7_SecondSelected ==
    /\ (pc = "searchByTitle" /\ stream = "readable" /\ parsed.id = Q_title)
         => \A res \in LowScholarResponses :
              \/ (pc' = "searchArxiv" /\ meta' = Null /\ ~HasEvent("metadata")')
              \/ ~SearchByTitleReturns(res)
    /\ (pc = "searchArxiv" /\ stream = "readable" /\ parsed.id = Q_title)
         => \A res1 \in HighArxivResponses :
              \/ SelectedFrom(res1, events', meta')
              \/ ~SearchArxivReturns(res1, Throw)

\* C7: for a title or doi query the emitted metadata never comes from a
\* candidate of the title search, the arXiv search or the exact match that
\* scores below 0.4 against the query; a first adapter whose best candidate
\* scores 0.2 is passed over and a second adapter whose best candidate scores
\* 0.6 supplies the metadata.
C7_ThresholdRespected == [](C7_NoLowCandidate) /\ [][C7_SecondSelected]_vars

C7_Witness ==
    /\ input = I_padded
    /\ Len(calls) >= 2
    /\ calls[1].name = "searchByTitle" /\ calls[1].result = "none"
    /\ calls[2].name = "searchArxiv" /\ calls[2].result = "hit"
    /\ \E i \in MetadataEvents : events[i].data.title = T_high

(***************************************************************************)
(* Properties of the classifier (ParseSpec)                                *)
(***************************************************************************)
\* s is a DOI from its first to its last character
IsDoi(s) == Len(s) > 0 /\ DoiLen(s, 1) = Len(s)

\* C8: every input that is a DOI is classified as doi with the whole
\* string as value.
C8_DoiWhole ==
    (pc = "classified" /\ IsDoi(input))
    => parsed = [type |-> "doi", id |-> input]

BareIds == {Id_1706, Id_1706_4}

AbsUrl(id) == S_https \o S_arxivAbs \o id

V3 == <<"v", "3">>

\* C9 as stated: the bare id, its abs URL and the versioned abs URL all
\* classify to the bare id
C9_SameQuery ==
    pc = "classified"
    => \A id \in BareIds :
          input \in {id, AbsUrl(id), AbsUrl(id) \o V3}
             => parsed = [type |-> "arxiv", id |-> id]

\* C9: a bare arXiv id and its https://arxiv.org/abs/ URL classify to kind
\* arxiv with the bare id as value; with a version suffix vN the value is the
\* id followed by the suffix.
C9_VersionKept ==
    pc = "classified"
    => \A id \in BareIds :
          /\ input \in {id, AbsUrl(id)}
                => parsed = [type |-> "arxiv", id |-> id]
          /\ input \in {id \o V3, AbsUrl(id) \o V3}
                => parsed = [type |-> "arxiv", id |-> id \o V3]

C9_Witness ==
    /\ pc = "classified"
    /\ input = AbsUrl(Id_1706) \o V3
    /\ parsed = [type |-> "arxiv", id |-> Id_1706 \o V3]

Kinds == {"arxiv", "doi", "url", "title"}

HasUrlPrefix(s) == startsWith(s, S_http) \/ startsWith(s, S_https)

\* C10 as stated: the rules are applied to the input as supplied
C10_RawRules ==
    pc = "classified"
    => /\ parsed.type \in Kinds
       /\ parsed.type = "url"
             => (HasUrlPrefix(input) /\ ~ArxivMatches(input) /\ ~DoiMatches(input))
       /\ parsed.type = "title"
             <=> ~(ArxivMatches(input) \/ DoiMatches(input) \/ HasUrlPrefix(input))
       /\ parsed.type = "title" => parsed.id = trim(input)

\* C10: every input gets exactly one kind, chosen by the first rule that
\* matches the trimmed input in the order arXiv pattern, DOI pattern, URL
\* prefix, title; the value of a url or a title is the trimmed input.
C10_FirstMatch ==
    pc = "classified"
    => /\ parsed.type \in Kinds
       /\ parsed.type = "arxiv" <=> ArxivMatches(trim(input))
       /\ parsed.type = "doi"
             <=> (~ArxivMatches(trim(input)) /\ DoiMatches(trim(input)))
       /\ parsed.type = "url"
             <=> (/\ ~ArxivMatches(trim(input))
                  /\ ~DoiMatches(trim(input))
                  /\ HasUrlPrefix(trim(input)))
       /\ parsed.type = "title"
             <=> ~(\/ ArxivMatches(trim(input))
                   \/ DoiMatches(trim(input))
                   \/ HasUrlPrefix(trim(input)))
       /\ parsed.type \in {"url", "title"} => parsed.id = trim(input)

C10_Witness ==
    /\ pc = "classified"
    /\ input = <<" ">> \o S_https \o <<"x">>
    /\ parsed = [type |-> "url", id |-> S_https \o <<"x">>]

(***************************************************************************)
(* Properties of the scorer (ScoreSpec)                                    *)
(***************************************************************************)
\* the two scores are the same rational number
SameScore(x, y) == x.num * y.den = y.num * x.den

\* C11: the score lies in [0, 1]; it is 0 when either normalized word set
\* is empty and |A \cap B| / max(|A|, |B|) over the deduplicated word sets
\* otherwise, so a title with at least one word scores 1 against itself.
C11_ScoreRange ==
    pc = "scored"
    => /\ similarity.den > 0
       /\ 0 <= similarity.num
       /\ similarity.num <= similarity.den
       /\ (normalize(titleA) = {} \/ normalize(titleB) = {})
             => similarity.num = 0
       /\ (normalize(titleA) # {} /\ normalize(titleB) # {})
             => similarity.num * Max(Cardinality(normalize(titleA)),
                                     Cardinality(normalize(titleB)))
                  = Cardinality(normalize(titleA) \cap normalize(titleB))
                       * similarity.den
       /\ (titleA = titleB /\ normalize(titleA) # {})
             => similarity.num = similarity.den

C11_Witness ==
    /\ pc = "scored"
    /\ titleA = <<"a"," ","a"," ","b">>
    /\ titleB = Q_title
    /\ similarity.num * 5 = 2 * similarity.den

\* C12: the score does not depend on the order of the two titles, and so
\* neither does acceptance at the threshold.
C12_Symmetric ==
    pc = "scored"
    => /\ SameScore(similarity, titleSimilarity(titleB, titleA))
       /\ AtLeastThreshold(similarity)
             <=> AtLeastThreshold(titleSimilarity(titleB, titleA))

C12_Witness ==
    /\ pc = "scored"
    /\ titleA = <<"a">>
    /\ titleB = <<"a"," ","b">>
    /\ similarity.num * 2 = similarity.den

\* the ways of rewriting a title that the scorer is meant to ignore
ToUpper(c) ==
    IF \E k \in 1..26 : LowerCase[k] = c
    THEN UpperCase[CHOOSE k \in 1..26 : LowerCase[k] = c]
    ELSE c

Punctuation == {",", "-", "!"}

PunctuationAt(s) == {i \in 1..Len(s) : s[i] \in Punctuation}

SpacesAt(s) == {i \in 1..Len(s) : IsSpace(s[i])}

\* one or all letters in the other case
CaseVariants(s) ==
    {toLowerCase(s), [k \in 1..Len(s) |-> ToUpper(s[k])]}
    \cup {[s EXCEPT ![i] = ToUpper(s[i])] : i \in 1..Len(s)}
    \cup {[s EXCEPT ![i] = ToLower(s[i])] : i \in 1..Len(s)}

\* a punctuation character added at any position, one removed, or one
\* replaced by another; whitespace is left as it is
PunctuationVariants(s) ==
    {Slice(s, 1, i) \o <<p>> \o Slice(s, i + 1, Len(s)) :
        i \in 0..Len(s), p \in Punctuation}
    \cup {Slice(s, 1, i - 1) \o Slice(s, i + 1, Len(s)) : i \in PunctuationAt(s)}
    \cup {[s EXCEPT ![i] = p] : i \in PunctuationAt(s), p \in Punctuation}

\* a hyphen in place of one white-space character, and the reverse
HyphenForSpace(s) ==
    {[s EXCEPT ![i] = "-"] : i \in SpacesAt(s)}
    \cup {[s EXCEPT ![i] = " "] : i \in {k \in 1..Len(s) : s[k] = "-"}}

\* rewriting either title as one of vs(title) leaves the score as it is
ScoreUnchanged(vs(_)) ==
    /\ \A v \in vs(titleA) : SameScore(titleSimilarity(v, titleB), similarity)
    /\ \A v \in vs(titleB) : SameScore(titleSimilarity(titleA, v), similarity)

C14_RejectedWithoutStream ==
    /\ (response \in {"400", "stream"} /\ (input = NoString \/ apiKey = ""))
          => response = "400"
    /\ response = "400"
          => /\ pc = "rejected"
             /\ stream = "none"
             /\ events = <<>>
             /\ calls = <<>>
             /\ inflight = 0

C14_Witness ==
    /\ response = "400"
    /\ input = I_doi
    /\ apiKey = ""
    /\ stream = "none"

\* the number of events of evs named name
CountEvents(evs, name) ==
    Cardinality({i \in 1..Len(evs) : evs[i].event = name})

\* C15: when the completion provider answers with a non-success status
\* (and the caller still reads the stream), the handler appends one error
\* event carrying that status and at most the first 200 characters of the
\* error body, that is the only error event, no chunk and no done is
\* emitted, and the stream is closed.
C15_UpstreamFailure ==
    [][\A res \in QwenErrors :
          (stream = "readable" /\ CompletionReturns(res))
             => /\ events' = Append(events, events'[Len(events')])
                /\ events'[Len(events')].event = "error"
                /\ events'[Len(events')].data.status = res.status
                /\ events'[Len(events')].data.excerpt <= 200
                /\ events'[Len(events')].data.excerpt <= res.errText
                /\ res.errText <= 200
                      => events'[Len(events')].data.excerpt = res.errText
                /\ CountEvents(events', "error") = 1
                /\ CountEvents(events', "chunk") = 0
                /\ CountEvents(events', "done") = 0
                /\ stream' = "closed"
                /\ pc' = "done"]_vars

C15_Witness ==
    /\ pc = "done"
    /\ stream = "closed"
    /\ calls[Len(calls)].result = "notOk"
    /\ events[Len(events)].event = "error"
    /\ events[Len(events)].data.message = "upstream"
    /\ events[Len(events)].data.status = 401
    /\ events[Len(events)].data.excerpt = 200

(***************************************************************************)
(* The order of the events of one stream (Spec)                            *)
(***************************************************************************)
EventsAt(name) == {i \in DOMAIN events : events[i].event = name}

\* the direct fetch of an arXiv id or of a URL yielded nothing: the only
\* queries whose resolution fails
ResolutionFailed ==
    /\ parsed # Null
    /\ parsed.type \in {"arxiv", "url"}
    /\ calls[1].result = "none"

\* the upstream response was relayed to its end
RelaySucceeded ==
    /\ pc = "done"
    /\ calls[Len(calls)].name = "read"
    /\ calls[Len(calls)].result = "ok"
    /\ stream = "closed"

\* C16: metadata is emitted once when resolution succeeds and never when it
\* fails, before every impact, chunk and done; impact is emitted at most
\* once and before every chunk; done is emitted once when the relay
\* succeeds, never otherwise, and after every chunk.
C16_EventOrder ==
    /\ Cardinality(EventsAt("metadata")) <= 1
    /\ ResolutionFailed => EventsAt("metadata") = {}
    /\ (ResolutionOver /\ ~ResolutionFailed)
          => Cardinality(EventsAt("metadata")) = 1
    /\ \A i \in EventsAt("impact") \cup EventsAt("chunk") \cup EventsAt("done") :
          \E j \in EventsAt("metadata") : j < i
    /\ Cardinality(EventsAt("impact")) <= 1
    /\ \A i \in EventsAt("impact") : \A j \in EventsAt("chunk") : i < j
    /\ Cardinality(EventsAt("done")) <= 1
    /\ RelaySucceeded => Cardinality(EventsAt("done")) = 1
    /\ EventsAt("done") # {} => RelaySucceeded
    /\ \A i \in EventsAt("done") : \A j \in EventsAt("chunk") : j < i

C16_Witness ==
    /\ RelaySucceeded
    /\ Cardinality(EventsAt("chunk")) = 2
    /\ \E i \in EventsAt("metadata") : \E j \in EventsAt("impact") :
       \E k \in EventsAt("chunk") : \E l \in EventsAt("done") :
          i < j /\ j < k /\ k < l

(***************************************************************************)
(* Properties of the text cap (CapSpec)                                    *)
(***************************************************************************)
\* text t ends with the segments of m
EndsWith(t, m) ==
    /\ Len(t) >= Len(m)
    /\ SubSeq(t, Len(t) - Len(m) + 1, Len(t)) = m

\* C17: a stripped text longer than 50,000 characters is returned by
\* fetchWebPage and by fetchFullText as its first 50,000 characters followed
\* by the truncation marker; a text of at most 50,000 characters is returned
\* as it is; what is returned is never longer than 50,000 characters plus
\* the marker.
C17_TextCap ==
    pc \in {"cappedPage", "cappedPaper"}
    => LET marker == IF pc = "cappedPage" THEN PageMarker ELSE PaperMarker
       IN /\ TextLen(stripped) > 50000
                => /\ TextLen(capped) = 50000 + TextLen(marker)
                   /\ EndsWith(capped, marker)
                   /\ TextSlice(capped, 50000) = TextSlice(stripped, 50000)
          /\ TextLen(stripped) <= 50000 => capped = stripped
          /\ TextLen(capped) <= 50000 + TextLen(marker)

C17_Witness ==
    /\ pc = "cappedPage"
    /\ TextLen(stripped) = 60000
    /\ TextLen(capped) = 50016
    /\ EndsWith(capped, PageMarker)

(***************************************************************************)
(* Cancellation (Spec)                                                     *)
(***************************************************************************)
\* C18: once the caller has aborted, the relay issues no further read on
\* the upstream response: the read that was outstanding at the abort may
\* return, but the handler does not go back to reader.read(), and it does
\* not leave without giving up the upstream response.
C18_StopsOnAbort ==
    [][(stream = "cancelled" /\ pc = "read")
          => /\ pc' # "read"
             /\ upstream' = <<>>]_vars

(***************************************************************************)
(* Exceptions (Spec)                                                       *)
(***************************************************************************)
\* an exception was raised while the request was handled: the body could
\* not be read, or an awaited call rejected
ExceptionRaised ==
    \/ response = "threw"
    \/ pc = "done" /\ calls # <<>> /\ calls[Len(calls)].result = "threw"

\* C19: an exception raised anywhere while the request is handled, the
\* reading of the request body included, is surfaced as one error event,
\* the last of the stream, and the stream is closed (for a caller that has
\* not aborted).
C19_ExceptionSurfaced ==
    (ExceptionRaised /\ stream # "cancelled")
    => /\ stream = "closed"
       /\ CountEvents(events, "error") = 1
       /\ events[Len(events)].event = "error"
       /\ events[Len(events)].data.message = "exception"

(***************************************************************************)
(* Timeouts (TimeoutSpec)                                                  *)
(***************************************************************************)
\* C20: every network call of every source adapter has a timeout: when the
\* service never responds the timer ends the call, the adapter returns no
\* result and the handler goes on.
C20_EveryCallBounded ==
    Silent => /\ Timeout(calls[Len(calls)].name) > 0
              /\ ENABLED TimerFires

(***************************************************************************)
(* Properties of the impact adapter (ImpactSpec)                           *)
(***************************************************************************)
\* C21: when an arXiv id is present and the id-keyed lookup yields no
\* record, fetchImpact sends the title search before it returns none.
C21_FallsBackToTitleSearch ==
    (pc = "impactFetched" /\ meta.arxivId # NoString /\ impact = Null)
    => \E i \in DOMAIN calls :
          /\ calls[i].name = "titleSearch"
          /\ \E j \in 1..(i - 1) : calls[j].name = "idLookup"

(***************************************************************************)
(* The impact stage of POST (Spec)                                         *)
(***************************************************************************)
CallsOf(name) == {i \in DOMAIN calls : calls[i].name = name}

\* fetchImpact is called once after metadata, after the full-text stage and
\* just before the completion request; without a record no impact event is
\* ever emitted and a relay that succeeds still ends in done
C22_ImpactOnce ==
    /\ Cardinality(CallsOf("fetchImpact")) <= 1
    /\ (HasEvent("metadata") /\ calls[Len(calls)].name # "fetchFullText")
          => Cardinality(CallsOf("fetchImpact")) = 1
    /\ \A i \in CallsOf("fetchImpact") :
          /\ HasEvent("metadata")
          /\ \A j \in CallsOf("fetchFullText") : j < i /\ calls[j].result # "pending"
          /\ \A j \in CallsOf("completion") : j = i + 1
          /\ \A j \in CallsOf("read") : j = i + 2
          /\ calls[i].result = "none" => ~HasEvent("impact")
    /\ (RelaySucceeded /\ impact = Null)
          => /\ ~HasEvent("impact")
             /\ events[Len(events)].event = "done"

\* when fetchImpact yields none for a caller that still reads, the handler
\* emits only the status of the next stage and issues the completion request
C22_NoneChangesNothing ==
    \A res \in ImpactResponses :
       (stream = "readable" /\ FetchImpactReturns(res)
           /\ fetchImpact(meta.title, meta.arxivId, res) = Null)
       => /\ events' = Append(events, Status("analysis"))
          /\ meta' = meta
          /\ fullText' = fullText
          /\ impact' = Null
          /\ stream' = stream
          /\ pc' = "completion"
          /\ calls'[Len(calls')] = Call("completion")

\* C22: the impact fetch is attempted exactly once on every request whose
\* resolution produced metadata, after the full-text stage and before the
\* completion request; when it yields none no impact event is emitted,
\* metadata and full text stay as they are, the completion request is
\* issued and the stream ends in done when the relay succeeds.
C22_ImpactFailureIsSoft == [](C22_ImpactOnce) /\ [][C22_NoneChangesNothing]_vars

C22_Witness ==
    /\ RelaySucceeded
    /\ impact = Null
    /\ \E i \in CallsOf("fetchImpact") : calls[i].result = "none"
    /\ \E i \in CallsOf("fetchFullText") : calls[i].result = "hit"
    /\ HasEvent("chunk")
    /\ events[Len(events)].event = "done"

(***************************************************************************)
(* Properties of the arXiv search (ArxivSearchSpec)                        *)
(***************************************************************************)
\* the entries of a feed that may be kept: title present and not "Error"
Eligible(entries) ==
    {i \in DOMAIN entries :
        entries[i].title # NoString /\ entries[i].title # T_Error}

\* entry i of the feed scores at least 0.4 against the query and no
\* eligible entry scores higher
BestAccepted(query, entries, i) ==
    /\ i \in Eligible(entries)
    /\ titleSimilarity(query, entries[i].title).num * 10
          >= 4 * titleSimilarity(query, entries[i].title).den
    /\ \A j \in Eligible(entries) :
          ~ScoreGt(titleSimilarity(query, entries[j].title),
                   titleSimilarity(query, entries[i].title))

\* the answer to one query has an entry that is accepted
PassAccepts(query, res) ==
    /\ res # Throw
    /\ res # NotOk
    /\ \E i \in DOMAIN res.body : BestAccepted(query, res.body, i)

\* C23: searchArxiv sends the quoted title query first and the all-fields
\* query only if the first pass accepted nothing; the result is an entry of
\* the accepting pass that is eligible, scores at least 0.4 and is scored
\* highest of the eligible entries; there is no result if neither pass
\* accepts or a pass throws.
C23_TwoPassBest ==
    pc = "arxivSearched"
    => /\ calls[1].name = "ti"
       /\ Len(calls) \in {1, 2}
       /\ Len(calls) = 2 <=> (calls[1].result # Throw
                                /\ ~PassAccepts(parsed.id, calls[1].result))
       /\ Len(calls) = 2 => calls[2].name = "all"
       /\ LET last == calls[Len(calls)].result
          IN IF PassAccepts(parsed.id, last)
             THEN /\ meta # Null
                  /\ \E i \in DOMAIN last.body :
                        /\ BestAccepted(parsed.id, last.body, i)
                        /\ meta.title = last.body[i].title
                        /\ meta.arxivId = last.body[i].arxivId
             ELSE meta = Null

C23_Witness ==
    /\ pc = "arxivSearched"
    /\ parsed.id = Q_title
    /\ Len(calls) = 2
    /\ calls[1].result = Ok(<<Entry(T_low, NoString)>>)
    /\ calls[2].result = Ok(<<Entry(T_low, NoString), Entry(T_high, Id_1706)>>)
    /\ meta # Null
    /\ meta.title = T_high

(***************************************************************************)
(* Properties of the relay of malformed frames (RelaySpec)                 *)
(***************************************************************************)
WellFormedLines == {F_A, F_B, F_C}

\* the text fragments of the well-formed lines of ls, one per line, in order
RECURSIVE WellFormedFragments(_)
WellFormedFragments(ls) ==
    IF ls = <<>> THEN <<>>
    ELSE (IF Head(ls) \in WellFormedLines
          THEN <<<<Head(ls)[Len(Head(ls)) - 1]>>>> ELSE <<>>)
         \o WellFormedFragments(Tail(ls))

\* the texts of the chunk events of evs, one per event, in order
RECURSIVE ChunkTexts(_)
ChunkTexts(evs) ==
    IF evs = <<>> THEN <<>>
    ELSE (IF Head(evs).event = "chunk" THEN <<Head(evs).data.text>> ELSE <<>>)
         \o ChunkTexts(Tail(evs))

\* the complete lines of a response, of which every line ends in a line feed
CompleteLines(body) ==
    LET pieces == SplitLines(body, 1, <<>>)
    IN SubSeq(pieces, 1, Len(pieces) - 1)

\* C24: a line without the data: prefix, the [DONE] sentinel, a payload
\* that is not JSON and a payload without a text fragment produce no chunk
\* and no error; when the response ends the chunks emitted are exactly the
\* fragments of the well-formed lines, in order, whatever came before them,
\* and done follows.
C24_MalformedSkipped ==
    [](~HasEvent("error"))
    /\ [][(pc = "read" /\ pc' = "done")
            => /\ ChunkTexts(events') = WellFormedFragments(CompleteLines(upstream))
               /\ events'[Len(events')].event = "done"
               /\ stream' = "closed"]_vars

C24_Witness ==
    /\ pc = "read"
    /\ upstream = JoinLines(<<L_badJson, F_A>>)
    /\ offset = Len(upstream)
    /\ ChunkTexts(events) = <<<<"A">>>>

(***************************************************************************)
(* Properties of the resolution of wordless queries (WordlessSpec)         *)
(***************************************************************************)
\* C25: every metadata event carries a title that is not empty, for every
\* input that passes the field check and on every resolution path.
C25_TitleNonEmpty ==
    \A i \in EventsAt("metadata") : events[i].data.title # NoString

\* the adapters that accept a candidate by its score against the query
ScoredAdapters == {"searchByTitle", "searchArxiv", "exactMatch"}

\* no stage that scores candidates has resolved the query: metadata, if
\* any, was emitted after the web search had run
OnlyWebOrBare ==
    /\ \A i \in DOMAIN calls :
          calls[i].name \in ScoredAdapters => calls[i].result \in {"pending", "none"}
    /\ HasEvent("metadata") => CallsOf("webSearch") # {}

\* C27 as stated: a query without any ASCII letter or digit is never
\* resolved by the title search, the arXiv search or the exact match.
C27_NoAsciiNeverScored ==
    (parsed # Null /\ \A k \in DOMAIN input : ~IsWordChar(ToLower(input[k])))
    => OnlyWebOrBare

\* C27: a query in which no character is an ASCII letter or digit once it
\* is lower-cased has an empty normalized word set, scores 0 against every
\* candidate and is never resolved by the title search, the arXiv search or
\* the exact match, whatever they return; its metadata comes from the web
\* search or from the bare fallback.
C27_WordlessNeverScored ==
    (parsed # Null /\ \A k \in DOMAIN input : ~IsWordChar(toLowerCase(input)[k]))
    => /\ normalize(parsed.id) = {}
       /\ OnlyWebOrBare

C27_Witness ==
    /\ input = I_symbols
    /\ HasEvent("metadata")
    /\ Len(calls) >= 4
    /\ calls[1] = [name |-> "searchByTitle", result |-> "none"]
    /\ calls[2] = [name |-> "searchArxiv", result |-> "none"]
    /\ calls[3] = [name |-> "exactMatch", result |-> "none"]
    /\ calls[4].name = "webSearch"

(***************************************************************************)
(* The calls of controller.close (Spec)                                    *)
(***************************************************************************)
\* C26: on every path of the handler that ends with the caller still
\* connected, controller.close has been called exactly once, and it was
\* called on a controller that was not yet closed.
C26_ClosedOnce ==
    (pc = "done" /\ stream # "cancelled") => closes = <<"ok">>

AbortedLeavesResults ==
    [][(\E id \in RequestIds : requests[id] = "aborted" /\ requests'[id] = "ended")
        => UNCHANGED <<status, shownMeta, shownImpact, analysis, error>>]_vars

====
